---- MODULE Spec2Model ----
(***************************************************************************)
(* Model of the siphon tunnel server: the control-plane connection task   *)
(* (control_plane.rs), the router (router.rs), the port allocator and the *)
(* stream-id generator (state.rs), the HTTP ingress (http_plane.rs) and   *)
(* the TCP ingress (tcp_plane.rs).                                        *)
(*                                                                         *)
(* Rust strings are sequences of one-character strings, Option<T> is a    *)
(* sequence of length at most one (None == <<>>, Some(x) == <<x>>).       *)
(***************************************************************************)
EXTENDS Integers, Sequences, FiniteSets, TLC

\* ------------------------------------------------------------------ bounds
\* control connections accepted by ControlPlane::run
MaxConns == 2
\* frames the clients send on the control connections, in total
MaxFrames == 2
\* external HTTP requests
MaxReqs == 2
\* external TCP connections accepted by the TCP listeners
MaxTcp == 2
\* capacity of the outbound mpsc channel of a connection in the model
MaxQueue == 1

\* --------------------------------------------------------- program constants
MAX_FRAME_SIZE == 16777216
\* first value of HttpPlane::stream_id_counter and StreamIdGenerator::counter
FirstStreamId == 1
\* PortAllocator range (start..=end) of the modelled configuration
PortStart == 1
PortEnd == 2
\* subdomain.len() > 63
MaxSubdomainLen == 63
\* HTTP status codes of HttpPlane::handle_request
BAD_REQUEST == 400
NOT_FOUND == 404
INTERNAL_SERVER_ERROR == 500
BAD_GATEWAY == 502
GATEWAY_TIMEOUT == 504

Conns == 1..MaxConns
Reqs == 1..MaxReqs
Tcps == 1..MaxTcp
Ports == PortStart..PortEnd

None == <<>>
Some(x) == <<x>>
IsSome(o) == Len(o) = 1
Unwrap(o) == o[1]

\* the configured base_domain ("t") of the modelled server
base_domain == <<"t">>

\* ------------------------------------------------------------- characters
Digits == {"0", "1", "2", "3", "4", "5", "6", "7", "8", "9"}
LowerLetters == {"a", "b", "c", "d", "e", "f", "t"}
UpperLetters == {"A"}
\* char::is_alphanumeric is the Unicode predicate: letters of any case and digits
is_alphanumeric(ch) == ch \in Digits \cup LowerLetters \cup UpperLetters

\* control_plane.rs is_valid_subdomain
is_valid_subdomain(subdomain) ==
    IF Len(subdomain) = 0 \/ Len(subdomain) > MaxSubdomainLen THEN FALSE
    ELSE IF ~is_alphanumeric(subdomain[1]) THEN FALSE
    ELSE IF ~is_alphanumeric(subdomain[Len(subdomain)]) THEN FALSE
    ELSE \A i \in 1..Len(subdomain) :
            is_alphanumeric(subdomain[i]) \/ subdomain[i] = "-"

\* b'a' + first.to_digit(10): the fixed mapping 0-9 -> a-j
DigitToLetter(d) ==
    CASE d = "0" -> "a" [] d = "1" -> "b" [] d = "2" -> "c" [] d = "3" -> "d"
      [] d = "4" -> "e" [] d = "5" -> "f" [] d = "6" -> "g" [] d = "7" -> "h"
      [] d = "8" -> "i" [] d = "9" -> "j"

\* the closure of subdomain.unwrap_or_else: prefix + &id[1..8]
generate_subdomain(id) ==
    LET first == id[1]
        prefix == IF first \in Digits THEN DigitToLetter(first) ELSE first
    IN  <<prefix>> \o SubSeq(id, 2, 8)

\* the Uuid::new_v4().to_string() values drawn in the model (first 8 characters)
Uuids == {<<"1", "a", "0", "0", "0", "0", "0", "0">>}

\* ----------------------------------------------------------- wire messages
\* ClientMessage (messages.rs); local_port is only logged by the server
RequestTunnel(sub, tt) == [type |-> "request_tunnel", subdomain |-> sub, tunnel_type |-> tt]
HttpResponse(sid, d) == [type |-> "http_response", stream_id |-> sid, data |-> d]
ClientTcpData(sid, d) == [type |-> "tcp_data", stream_id |-> sid, data |-> d]
ClientTcpClose(sid) == [type |-> "tcp_close", stream_id |-> sid]
Ping(ts) == [type |-> "ping", timestamp |-> ts]
\* a payload serde_json::from_slice rejects
Garbage == [type |-> "garbage"]

\* ServerMessage (messages.rs)
TunnelEstablished(sub, port) == [type |-> "tunnel_established", subdomain |-> sub, port |-> port]
TunnelDenied(reason) == [type |-> "tunnel_denied", reason |-> reason]
HttpRequest(sid, host) == [type |-> "http_request", stream_id |-> sid, host |-> host]
TcpConnect(sid) == [type |-> "tcp_connect", stream_id |-> sid]
ServerTcpData(sid, d) == [type |-> "tcp_data", stream_id |-> sid, data |-> d]
ServerTcpClose(sid) == [type |-> "tcp_close", stream_id |-> sid]
\* a Pong that carries the time of the reply instead of the Ping's
Pong_now(ts) == [type |-> "pong", timestamp |-> ts + 1]
Pong(ts) == [type |-> "pong", timestamp |-> ts]

\* one length-prefixed frame in the read buffer: declared length and payload
Frame(len, payload) == [length |-> len, payload |-> payload]

\* TunnelCodec::decode on a buffer of whole frames: kind "none" is Ok(None),
\* "err" is Err(_), "msg" is Ok(Some(msg)); rest is the buffer it leaves
decode(src) ==
    IF Len(src) = 0 THEN [kind |-> "none", msg |-> Garbage, rest |-> src]
    ELSE IF Head(src).length > MAX_FRAME_SIZE
         THEN [kind |-> "err", msg |-> Garbage, rest |-> src]
    ELSE IF Head(src).payload.type = "garbage"
         THEN [kind |-> "err", msg |-> Garbage, rest |-> Tail(src)]
    ELSE [kind |-> "msg", msg |-> Head(src).payload, rest |-> Tail(src)]

\* ------------------------------------------------------------------- state
VARIABLES
    \* ControlPlane::handle_connection, per connection
    pc,                 \* position of the connection task
    read_buf,           \* frames read and not yet decoded
    nread,              \* frames read so far
    budget,             \* frames the clients may still send
    assigned_subdomain, \* Option<String>
    assigned_tcp_port,  \* Option<u16>
    cur,                \* locals of the handler in progress
    pending,            \* the ServerMessage a handler is about to send
    chan,               \* the outbound mpsc channel (tx -> rx)
    rx_open,            \* the receiver of the channel (writer task) is alive
    \* Router
    routes, tcp_ports,
    \* PortAllocator, bound listeners, DNS provider
    allocated, listeners, dns_records,
    \* HttpPlane
    stream_id_counter, response_registry,
    hpc, hhost, hsid, hconn, oneshot, hresp,
    \* TcpPlane
    stream_id_gen, tcp_registry,
    tpc, tsid, tsub, tconn, twq, twpc,
    \* history
    frame_error,        \* decode returned Err on this connection
    got_request,        \* a RequestTunnel was dispatched on this connection
    established,        \* <<conn, subdomain>> answered TunnelEstablished
    registered_by,      \* subdomains each connection inserted into routes
    alloc_by,           \* port -> connection whose negotiation allocated it
    double_release,     \* release() was called for a port that was free
    lost,               \* requests pending when their tunnel was torn down
    resolved,           \* per request: times its sink left the registry
    hsent,              \* per request: its HttpRequest frame was enqueued
    \* TunnelCodec on one transport: Encoder on the sending side, Decoder
    \* on the receiving side
    citem,              \* the message last handed to encode, and the sender's side
    dst,                \* the BytesMut encode writes to
    enc_result,         \* result of the last encode
    enc_log,            \* what was written to the transport, in order
    src,                \* the BytesMut decode reads from
    feed,               \* bytes in flight, not yet in src
    rpc,                \* the receiver: "read" or in its "decode" loop
    dec_log,            \* results of the decode calls so far
    \* the outbound side of the control connections
    wire,               \* per connection: the frame its writer task wrote last
    cap,                \* capacity of the mpsc channels
    peer,               \* who is at the far end of the control connections:
                        \* "env" (any peer) or "client" (the siphon client)
    s2c,                \* per connection: frames written to a siphon client
                        \* that it has not read yet
    \* the siphon client (TunnelConnection::run and its TcpForwarder)
    cpc,                \* the read loop: "read", "connect", "data_send"
    cmsg,               \* the ServerMessage the read loop is handling
    connections,        \* TcpForwarder::connections: the registered stream ids
    cwq,                \* per stream: the channel to the local write task
    cwpc,               \* per stream: the local write task
    crpc,               \* per stream: the local read task
    response_tx,        \* the channel to the client's writer task
    \* what the two ends of each TCP stream have sent and received
    ext_out,            \* per stream: chunks the external peer has sent
    ext_in,             \* per stream: chunks written to the external peer
    local_out,          \* per stream: chunks the local service has sent
    local_in,           \* per stream: chunks written to the local service
    sclose,             \* per stream: TcpClose frames the server enqueued
    cclose,             \* per stream: TcpClose frames the client enqueued
    \* the client's reconnection loop (run_cli_mode)
    mpc,                \* where the loop is
    shutdown,           \* the loop's `shutdown` flag
    loss,               \* how the last run_tunnel ended, "none" before any did
    tries,              \* connection attempts started, counted up to MaxTries
    \* the client's HTTP forwarding (the tasks spawned for HttpRequest)
    fpc,                \* per request: its task
    fres,               \* per request: what forward_http returned
    fmsg,               \* per request: the HttpResponse the task built
    wtask,              \* the client's write task
    c2s,                \* the frames the client's write task has written
    \* history of the negotiations
    denied              \* per connection: a handler answered TunnelDenied

ctlVars == <<pc, read_buf, nread, budget, assigned_subdomain, assigned_tcp_port, cur,
             pending, chan, rx_open>>
routerVars == <<routes, tcp_ports>>
resVars == <<allocated, listeners, dns_records>>
httpVars == <<stream_id_counter, response_registry, hpc, hhost, hsid, hconn,
              oneshot, hresp>>
tcpVars == <<stream_id_gen, tcp_registry, tpc, tsid, tsub, tconn, twq, twpc>>
histVars == <<frame_error, got_request, established, registered_by, alloc_by,
              double_release, lost, resolved, hsent>>
codecVars == <<citem, dst, enc_result, enc_log, src, feed, rpc, dec_log>>
linkVars == <<wire, cap>>
clientVars == <<cpc, cmsg, connections, cwq, cwpc, crpc, response_tx>>
traceVars == <<ext_out, ext_in, local_out, local_in, sclose, cclose>>
mainVars == <<mpc, shutdown, loss, tries>>
fwdVars == <<fpc, fres, fmsg, wtask, c2s>>
extVars == <<codecVars, linkVars, peer, denied, fwdVars, mainVars, s2c, clientVars, traceVars>>
vars == <<ctlVars, routerVars, resVars, httpVars, tcpVars, histVars, extVars>>

NoCur == [subdomain |-> <<>>, tunnel_type |-> "http", port |-> None, rec |-> None]

\* a DashMap: remove a key, insert a key
MapRemove(m, k) == [x \in DOMAIN m \ {k} |-> m[x]]
MapInsert(m, k, v) == [x \in DOMAIN m \cup {k} |-> IF x = k THEN v ELSE m[x]]
EmptyMap == [x \in {} |-> 0]

\* no message has been handed to a codec
NoItem == [side |-> "none", msg |-> [type |-> "none"]]

\* the codec state of a fresh transport
CodecIdle ==
    /\ citem = NoItem
    /\ dst = <<>>
    /\ enc_result = [err |-> None, wrote |-> 0]
    /\ enc_log = <<>>
    /\ src = <<>>
    /\ feed = <<>>
    /\ rpc = "read"
    /\ dec_log = <<>>

\* the state outside the server planes before anything ran, with the
\* capacity the channels are created with
ExtStartWith(capacity, far_end) ==
    /\ CodecIdle
    /\ wire = [c \in Conns |-> None]
    /\ cap = capacity
    /\ peer = far_end
    /\ denied = [c \in Conns |-> FALSE]
    /\ fpc = [r \in Reqs |-> "idle"]
    /\ fres = [r \in Reqs |-> None]
    /\ fmsg = [r \in Reqs |-> None]
    /\ wtask = "run"
    /\ c2s = <<>>
    /\ mpc = "select"
    /\ shutdown = FALSE
    /\ loss = "none"
    /\ tries = 0
    /\ s2c = [c \in Conns |-> <<>>]
    /\ cpc = "read"
    /\ cmsg = [type |-> "none"]
    /\ connections = {}
    /\ cwq = [t \in Tcps |-> <<>>]
    /\ cwpc = [t \in Tcps |-> "idle"]
    /\ crpc = [t \in Tcps |-> "idle"]
    /\ response_tx = <<>>
    /\ ext_out = [t \in Tcps |-> 0]
    /\ ext_in = [t \in Tcps |-> <<>>]
    /\ local_out = [t \in Tcps |-> 0]
    /\ local_in = [t \in Tcps |-> <<>>]
    /\ sclose = [t \in Tcps |-> 0]
    /\ cclose = [t \in Tcps |-> 0]

ExtStart(capacity) == ExtStartWith(capacity, "env")

ExtIdle == ExtStart(MaxQueue)

InitWith(frames, capacity) ==
    /\ pc = [c \in Conns |-> "init"]
    /\ read_buf = [c \in Conns |-> <<>>]
    /\ nread = [c \in Conns |-> 0]
    /\ budget = frames
    /\ assigned_subdomain = [c \in Conns |-> None]
    /\ assigned_tcp_port = [c \in Conns |-> None]
    /\ cur = [c \in Conns |-> NoCur]
    /\ pending = [c \in Conns |-> None]
    /\ chan = [c \in Conns |-> <<>>]
    /\ rx_open = [c \in Conns |-> FALSE]
    /\ routes = EmptyMap
    /\ tcp_ports = EmptyMap
    /\ allocated = {}
    /\ listeners = {}
    /\ dns_records = {}
    /\ stream_id_counter = FirstStreamId
    /\ response_registry = EmptyMap
    /\ hpc = [r \in Reqs |-> "idle"]
    /\ hhost = [r \in Reqs |-> None]
    /\ hsid = [r \in Reqs |-> 0]
    /\ hconn = [r \in Reqs |-> 0]
    /\ oneshot = [r \in Reqs |-> None]
    /\ hresp = [r \in Reqs |-> None]
    /\ stream_id_gen = FirstStreamId
    /\ tcp_registry = EmptyMap
    /\ tpc = [t \in Tcps |-> "idle"]
    /\ tsid = [t \in Tcps |-> 0]
    /\ tsub = [t \in Tcps |-> <<>>]
    /\ tconn = [t \in Tcps |-> 0]
    /\ twq = [t \in Tcps |-> <<>>]
    /\ twpc = [t \in Tcps |-> "idle"]
    /\ frame_error = [c \in Conns |-> FALSE]
    /\ got_request = [c \in Conns |-> FALSE]
    /\ established = {}
    /\ registered_by = [c \in Conns |-> {}]
    /\ alloc_by = [p \in Ports |-> 0]
    /\ double_release = FALSE
    /\ lost = [r \in Reqs |-> FALSE]
    /\ resolved = [r \in Reqs |-> 0]
    /\ hsent = [r \in Reqs |-> FALSE]
    /\ ExtStart(capacity)

Init == InitWith(MaxFrames, MaxQueue)

\* ------------------------------------------------------ router, allocator
\* Router::is_available
is_available(rt, subdomain) == subdomain \notin DOMAIN rt

\* a lookup that returns the sender of some other route when there is one
get_sender_other(rt, subdomain) ==
    IF subdomain \in DOMAIN rt
    THEN IF DOMAIN rt \ {subdomain} # {}
         THEN Some(rt[CHOOSE s \in DOMAIN rt \ {subdomain} : TRUE].sender)
         ELSE Some(rt[subdomain].sender)
    ELSE None

\* Router::get_sender: the sender is identified by the connection owning rx
get_sender(rt, subdomain) ==
    IF subdomain \in DOMAIN rt THEN Some(rt[subdomain].sender) ELSE None

\* Router::register, first half: self.routes.contains_key(&subdomain)
contains_key(rt, subdomain) == subdomain \in DOMAIN rt

\* Router::register, second half: the two inserts
register_routes(rt, subdomain, handle) == MapInsert(rt, subdomain, handle)
register_tcp_ports(tp, subdomain, tcp_port) ==
    IF IsSome(tcp_port) THEN MapInsert(tp, Unwrap(tcp_port), subdomain) ELSE tp

\* an unregister that keeps the TCP-port mappings
unregister_tcp_ports_kept(rt, tp, subdomain) == tp

\* Router::unregister
unregister_routes(rt, subdomain) == MapRemove(rt, subdomain)
unregister_tcp_ports(rt, tp, subdomain) ==
    IF subdomain \in DOMAIN rt
    THEN [p \in {q \in DOMAIN tp : tp[q] # subdomain} |-> tp[p]]
    ELSE tp

\* allocate that scans the range from its end
allocate_from_end(alloc) ==
    IF Ports \ alloc = {} THEN None
    ELSE Some(CHOOSE p \in Ports \ alloc : \A q \in Ports \ alloc : q <= p)

\* the loop of PortAllocator::allocate from a port on:
\* for port in self.start..=self.end { if !allocated.contains(&port) ... }
RECURSIVE first_free(_, _)
first_free(alloc, port) ==
    IF port > PortEnd THEN None
    ELSE IF port \notin alloc THEN Some(port)
    ELSE first_free(alloc, port + 1)

\* allocate that does not look at the ports already allocated
allocate_unmarked(alloc) == first_free({}, PortStart)

\* PortAllocator::allocate: the port it returns (the caller's step inserts it)
allocate(alloc) == first_free(alloc, PortStart)

\* PortAllocator::release
release(alloc, port) == alloc \ {port}

\* TcpPlane::release_port of an Option<u16> (if let Some(port) = ...)
release_opt(alloc, tcp_port) ==
    IF IsSome(tcp_port) THEN release(alloc, Unwrap(tcp_port)) ELSE alloc

ReleasedFree(alloc, tcp_port) == IsSome(tcp_port) /\ Unwrap(tcp_port) \notin alloc

\* one more TcpClose of stream t in the outbound channel of its tunnel
CloseEnqueued(count, c, t) ==
    IF rx_open[c] THEN [count EXCEPT ![t] = @ + 1] ELSE count

\* mpsc::Sender::send on the outbound channel of connection c: it waits while
\* the channel is full and fails once the receiver is gone
CanSend(c) == ~rx_open[c] \/ Len(chan[c]) < cap
\* a channel that hands the newest message to the receiver first
Sent_front(c, msg) == IF rx_open[c] THEN [chan EXCEPT ![c] = <<msg>> \o @] ELSE chan

Sent(c, msg) == IF rx_open[c] THEN [chan EXCEPT ![c] = Append(@, msg)] ELSE chan

\* ------------------------------------------- ControlPlane::handle_connection
\* TLS accept, channel creation, writer task spawn
Accept(c, tls_ok) ==
    /\ pc[c] = "init"
    /\ \A b \in Conns : b < c => pc[b] # "init"
    /\ IF tls_ok
       THEN /\ pc' = [pc EXCEPT ![c] = "read"]
            /\ rx_open' = [rx_open EXCEPT ![c] = TRUE]
       ELSE /\ pc' = [pc EXCEPT ![c] = "closed"]
            /\ UNCHANGED rx_open
    /\ UNCHANGED <<read_buf, nread, budget, assigned_subdomain, assigned_tcp_port, cur,
                   pending, chan>>
    /\ UNCHANGED <<routerVars, resVars, httpVars, tcpVars, histVars>>
    /\ UNCHANGED extVars

\* read_half.read_buf returned Ok(n), n > 0: one more frame in the buffer
read_frame(c, frame) ==
    /\ pc[c] = "read"
    /\ budget > 0
    /\ budget' = budget - 1
    /\ read_buf' = [read_buf EXCEPT ![c] = Append(@, frame)]
    /\ nread' = [nread EXCEPT ![c] = @ + 1]
    /\ pc' = [pc EXCEPT ![c] = "decode"]
    /\ UNCHANGED <<assigned_subdomain, assigned_tcp_port, cur, pending, chan, rx_open>>
    /\ UNCHANGED <<routerVars, resVars, httpVars, tcpVars, histVars>>

\* the frame comes from a peer that is not modelled
ReadFrame(c, frame) ==
    /\ read_frame(c, frame)
    /\ UNCHANGED extVars

\* read_half.read_buf returned Ok(0) or Err: break out of the read loop
ReadEof(c) ==
    /\ pc[c] = "read"
    /\ pc' = [pc EXCEPT ![c] = "cleanup"]
    /\ UNCHANGED <<read_buf, nread, budget, assigned_subdomain, assigned_tcp_port, cur,
                   pending, chan, rx_open>>
    /\ UNCHANGED <<routerVars, resVars, httpVars, tcpVars, histVars>>
    /\ UNCHANGED extVars

\* the inner decode loop after a handler returned, the buffer now being buf:
\* codec.decode returns Ok(None) on an empty buffer (break, read again)
loop_after(buf) == IF decode(buf).kind = "none" THEN "read" ELSE "decode"

\* the position the read loop takes after codec.decode returned Err: the
\* `break` leaves the inner loop only
after_decode_error == "read"

\* codec.decode returned Err(e): log, break
DecodeErr(c) ==
    /\ pc[c] = "decode"
    /\ decode(read_buf[c]).kind = "err"
    /\ read_buf' = [read_buf EXCEPT ![c] = decode(read_buf[c]).rest]
    /\ pc' = [pc EXCEPT ![c] = after_decode_error]
    /\ frame_error' = [frame_error EXCEPT ![c] = TRUE]
    /\ UNCHANGED <<nread, budget, assigned_subdomain, assigned_tcp_port, cur, pending,
                   chan, rx_open>>
    /\ UNCHANGED <<routerVars, resVars, httpVars, tcpVars>>
    /\ UNCHANGED <<got_request, established, registered_by, alloc_by,
                   double_release, lost, resolved, hsent>>
    /\ UNCHANGED extVars

Decoded(c, type) ==
    /\ pc[c] = "decode"
    /\ decode(read_buf[c]).kind = "msg"
    /\ decode(read_buf[c]).msg.type = type

\* ClientMessage::RequestTunnel up to the first await: subdomain generation,
\* validation, availability, port allocation
DispatchRequestTunnel(c) ==
    /\ Decoded(c, "request_tunnel")
    /\ \E id \in Uuids :
        LET msg == decode(read_buf[c]).msg
            subdomain == IF IsSome(msg.subdomain) THEN Unwrap(msg.subdomain)
                         ELSE generate_subdomain(id)
            port == allocate(allocated)
            deny(reason) ==
                /\ pending' = [pending EXCEPT ![c] = Some(TunnelDenied(reason))]
                /\ pc' = [pc EXCEPT ![c] = "send"]
                /\ UNCHANGED <<cur, allocated, alloc_by>>
        IN  /\ read_buf' = [read_buf EXCEPT ![c] = decode(read_buf[c]).rest]
            /\ got_request' = [got_request EXCEPT ![c] = TRUE]
            /\ IF ~is_valid_subdomain(subdomain)
               THEN deny("Invalid subdomain format")
               ELSE IF ~is_available(routes, subdomain)
               THEN deny("Subdomain already in use")
               ELSE IF msg.tunnel_type = "tcp"
               THEN IF IsSome(port)
                    THEN /\ allocated' = allocated \cup {Unwrap(port)}
                         /\ alloc_by' = [alloc_by EXCEPT ![Unwrap(port)] = c]
                         /\ cur' = [cur EXCEPT ![c] =
                                 [subdomain |-> subdomain, tunnel_type |-> "tcp",
                                  port |-> port, rec |-> None]]
                         /\ pc' = [pc EXCEPT ![c] = "bind"]
                         /\ UNCHANGED pending
                    ELSE deny("TCP port allocation failed")
               ELSE /\ cur' = [cur EXCEPT ![c] =
                            [subdomain |-> subdomain, tunnel_type |-> "http",
                             port |-> None, rec |-> None]]
                    /\ pc' = [pc EXCEPT ![c] = "dns"]
                    /\ UNCHANGED <<pending, allocated, alloc_by>>
    /\ UNCHANGED <<nread, budget, assigned_subdomain, assigned_tcp_port, chan, rx_open>>
    /\ UNCHANGED <<routerVars, listeners, dns_records, httpVars, tcpVars>>
    /\ UNCHANGED <<frame_error, established, registered_by, double_release,
                   lost, resolved, hsent>>
    /\ UNCHANGED extVars

\* the ports on which a listener task of TcpPlane::allocate_and_listen is
\* bound: the task's accept loop only ends on an accept error
BoundPorts == {l.port : l \in listeners}

\* TcpPlane::allocate_and_listen after allocate(): TcpListener::bind(addr).await?
\* and the spawn of the listener task; on Err the `?` returns with the port
\* still marked allocated
Bind(c, bind_ok) ==
    /\ pc[c] = "bind"
    /\ IF bind_ok /\ Unwrap(cur[c].port) \notin BoundPorts
       THEN /\ listeners' = listeners \cup
                  {[port |-> Unwrap(cur[c].port), subdomain |-> cur[c].subdomain]}
            /\ pc' = [pc EXCEPT ![c] = "dns"]
            /\ UNCHANGED <<pending, cur>>
       ELSE /\ pending' = [pending EXCEPT ![c] =
                  Some(TunnelDenied("TCP port allocation failed"))]
            /\ pc' = [pc EXCEPT ![c] = "send"]
            /\ cur' = [cur EXCEPT ![c] = NoCur]
            /\ UNCHANGED listeners
    /\ UNCHANGED <<read_buf, nread, budget, assigned_subdomain, assigned_tcp_port, chan, rx_open>>
    /\ UNCHANGED <<routerVars, allocated, dns_records, httpVars, tcpVars, histVars>>
    /\ UNCHANGED extVars

\* the DNS record id the provider returns for this negotiation
RecordId(c) == <<c, nread[c]>>

\* cloudflare.create_record(..).await, then on Ok the contains_key check of
\* Router::register; on Err and on SubdomainTaken: release the port, deny
Dns(c, dns_ok) ==
    /\ pc[c] = "dns"
    /\   LET sub == cur[c].subdomain
             fail(reason) ==
                /\ allocated' = release_opt(allocated, cur[c].port)
                /\ double_release' = (double_release \/ ReleasedFree(allocated, cur[c].port))
                /\ pending' = [pending EXCEPT ![c] = Some(TunnelDenied(reason))]
                /\ pc' = [pc EXCEPT ![c] = "send"]
                /\ cur' = [cur EXCEPT ![c] = NoCur]
         IN  IF ~dns_ok
             THEN /\ fail("DNS error")
                  /\ UNCHANGED dns_records
             ELSE /\ dns_records' = dns_records \cup
                        {[id |-> RecordId(c), subdomain |-> sub,
                          proxied |-> (cur[c].tunnel_type = "http")]}
                  /\ IF contains_key(routes, sub)
                     THEN fail("Registration failed")
                     ELSE /\ cur' = [cur EXCEPT ![c].rec = Some(RecordId(c))]
                          /\ pc' = [pc EXCEPT ![c] = "insert"]
                          /\ UNCHANGED <<allocated, double_release, pending>>
    /\ UNCHANGED <<read_buf, nread, budget, assigned_subdomain, assigned_tcp_port, chan, rx_open>>
    /\ UNCHANGED <<routerVars, listeners, httpVars, tcpVars>>
    /\ UNCHANGED <<frame_error, got_request, established, registered_by, alloc_by,
                   lost, resolved, hsent>>
    /\ UNCHANGED extVars

\* the inserts of Router::register, then assigned_subdomain / assigned_tcp_port
RegisterInsert(c) ==
    /\ pc[c] = "insert"
    /\ LET sub == cur[c].subdomain
           handle == [sender |-> c, tunnel_type |-> cur[c].tunnel_type,
                      dns_record_id |-> cur[c].rec]
       IN  /\ tcp_ports' = register_tcp_ports(tcp_ports, sub, cur[c].port)
           /\ routes' = register_routes(routes, sub, handle)
           /\ assigned_subdomain' = [assigned_subdomain EXCEPT ![c] = Some(sub)]
           /\ assigned_tcp_port' = [assigned_tcp_port EXCEPT ![c] = cur[c].port]
           /\ pending' = [pending EXCEPT ![c] =
                 Some(TunnelEstablished(sub,
                        IF cur[c].tunnel_type = "http" THEN None ELSE cur[c].port))]
           /\ registered_by' = [registered_by EXCEPT ![c] = @ \cup {sub}]
    /\ pc' = [pc EXCEPT ![c] = "send"]
    /\ cur' = [cur EXCEPT ![c] = NoCur]
    /\ UNCHANGED <<read_buf, nread, budget, chan, rx_open>>
    /\ UNCHANGED <<resVars, httpVars, tcpVars>>
    /\ UNCHANGED <<frame_error, got_request, established, alloc_by, double_release,
                   lost, resolved, hsent>>
    /\ UNCHANGED extVars

\* `let _ = tx.send(reply).await;` of a handler, then back to the decode loop
SendReply(c) ==
    /\ pc[c] = "send"
    /\ CanSend(c)
    /\ chan' = Sent(c, Unwrap(pending[c]))
    /\ established' =
         IF rx_open[c] /\ Unwrap(pending[c]).type = "tunnel_established"
         THEN established \cup {<<c, Unwrap(pending[c]).subdomain>>}
         ELSE established
    /\ denied' = IF Unwrap(pending[c]).type = "tunnel_denied"
                 THEN [denied EXCEPT ![c] = TRUE]
                 ELSE denied
    /\ pending' = [pending EXCEPT ![c] = None]
    /\ pc' = [pc EXCEPT ![c] = loop_after(read_buf[c])]
    /\ UNCHANGED <<read_buf, nread, budget, assigned_subdomain, assigned_tcp_port, cur, rx_open>>
    /\ UNCHANGED <<routerVars, resVars, httpVars, tcpVars>>
    /\ UNCHANGED <<frame_error, got_request, registered_by, alloc_by, double_release,
                   lost, resolved, hsent>>
    /\ UNCHANGED <<codecVars, linkVars, peer, fwdVars, mainVars, s2c, clientVars, traceVars>>

\* ClientMessage::Ping
DispatchPing(c) ==
    /\ Decoded(c, "ping")
    /\ read_buf' = [read_buf EXCEPT ![c] = decode(read_buf[c]).rest]
    /\ pending' = [pending EXCEPT ![c] = Some(Pong(decode(read_buf[c]).msg.timestamp))]
    /\ pc' = [pc EXCEPT ![c] = "send"]
    /\ UNCHANGED <<nread, budget, assigned_subdomain, assigned_tcp_port, cur, chan, rx_open>>
    /\ UNCHANGED <<routerVars, resVars, httpVars, tcpVars, histVars>>
    /\ UNCHANGED extVars

\* a remove that takes the lowest pending sink whatever the stream_id
registry_remove_any(reg, stream_id) ==
    IF DOMAIN reg # {}
    THEN Some(CHOOSE k \in DOMAIN reg : \A j \in DOMAIN reg : k <= j)
    ELSE None

\* response_registry.remove(&stream_id): the key it removes, if any
registry_remove_key(reg, stream_id) ==
    IF stream_id \in DOMAIN reg THEN Some(stream_id) ELSE None

\* ClientMessage::HttpResponse: response_registry.remove, then sender.send
\* (which fails only if the handler already dropped the receiver).  The
\* value put in the oneshot also records the frame's stream_id.
DispatchHttpResponse(c) ==
    /\ Decoded(c, "http_response")
    /\ LET msg == decode(read_buf[c]).msg
           key == registry_remove_key(response_registry, msg.stream_id)
       IN  /\ read_buf' = [read_buf EXCEPT ![c] = decode(read_buf[c]).rest]
           /\ IF IsSome(key)
              THEN LET r == response_registry[Unwrap(key)]
                   IN  /\ response_registry' = MapRemove(response_registry, Unwrap(key))
                       /\ resolved' = [resolved EXCEPT ![r] = @ + 1]
                       /\ oneshot' = IF hpc[r] \notin {"done", "panicked"}
                                     THEN [oneshot EXCEPT ![r] = Some(msg)]
                                     ELSE oneshot
              ELSE UNCHANGED <<response_registry, resolved, oneshot>>
    /\ pc' = [pc EXCEPT ![c] = loop_after(decode(read_buf[c]).rest)]
    /\ UNCHANGED <<nread, budget, assigned_subdomain, assigned_tcp_port, cur,
                   pending, chan, rx_open>>
    /\ UNCHANGED <<routerVars, resVars, tcpVars>>
    /\ UNCHANGED <<stream_id_counter, hpc, hhost, hsid, hconn, hresp>>
    /\ UNCHANGED <<frame_error, got_request, established, registered_by, alloc_by,
                   double_release, lost, hsent>>
    /\ UNCHANGED extVars

\* TcpPlane::get_writer
get_writer(reg, stream_id) ==
    IF stream_id \in DOMAIN reg THEN Some(reg[stream_id]) ELSE None

\* ClientMessage::TcpData: look the writer up; the send on it is TcpForward
DispatchTcpData(c) ==
    /\ Decoded(c, "tcp_data")
    /\ LET msg == decode(read_buf[c]).msg
           writer == get_writer(tcp_registry, msg.stream_id)
       IN  /\ read_buf' = [read_buf EXCEPT ![c] = decode(read_buf[c]).rest]
           /\ IF IsSome(writer)
              THEN /\ pending' = [pending EXCEPT ![c] =
                          Some([writer |-> Unwrap(writer), data |-> msg.data])]
                   /\ pc' = [pc EXCEPT ![c] = "tcp_send"]
              ELSE /\ pc' = [pc EXCEPT ![c] = loop_after(decode(read_buf[c]).rest)]
                   /\ UNCHANGED pending
    /\ UNCHANGED <<nread, budget, assigned_subdomain, assigned_tcp_port, cur, chan, rx_open>>
    /\ UNCHANGED <<routerVars, resVars, httpVars, tcpVars, histVars>>
    /\ UNCHANGED extVars

\* the write task of a TCP stream still holds write_rx
WriteRxOpen(t) == twpc[t] = "run"

\* writer.send(data).await of ClientMessage::TcpData
TcpForward(c) ==
    /\ pc[c] = "tcp_send"
    /\ LET t == Unwrap(pending[c]).writer
       IN  /\ ~WriteRxOpen(t) \/ Len(twq[t]) < cap
           /\ twq' = IF WriteRxOpen(t)
                     THEN [twq EXCEPT ![t] = Append(@, Unwrap(pending[c]).data)]
                     ELSE twq
    /\ pending' = [pending EXCEPT ![c] = None]
    /\ pc' = [pc EXCEPT ![c] = loop_after(read_buf[c])]
    /\ UNCHANGED <<read_buf, nread, budget, assigned_subdomain, assigned_tcp_port, cur,
                   chan, rx_open>>
    /\ UNCHANGED <<stream_id_gen, tcp_registry, tpc, tsid, tsub, tconn, twpc>>
    /\ UNCHANGED <<routerVars, resVars, httpVars, histVars>>
    /\ UNCHANGED extVars

\* a close that empties the registry
close_connection_all(reg, stream_id) == EmptyMap

\* TcpPlane::close_connection
close_connection(reg, stream_id) == MapRemove(reg, stream_id)

\* ClientMessage::TcpClose
DispatchTcpClose(c) ==
    /\ Decoded(c, "tcp_close")
    /\ read_buf' = [read_buf EXCEPT ![c] = decode(read_buf[c]).rest]
    /\ tcp_registry' = close_connection(tcp_registry, decode(read_buf[c]).msg.stream_id)
    /\ pc' = [pc EXCEPT ![c] = loop_after(decode(read_buf[c]).rest)]
    /\ UNCHANGED <<nread, budget, assigned_subdomain, assigned_tcp_port, cur, pending,
                   chan, rx_open>>
    /\ UNCHANGED <<stream_id_gen, tpc, tsid, tsub, tconn, twq, twpc>>
    /\ UNCHANGED <<routerVars, resVars, httpVars, histVars>>
    /\ UNCHANGED extVars

\* the end of the cleanup section: release assigned_tcp_port,
\* write_handle.abort() (rx and the frames queued in it are dropped), return
TeardownFinish(c) ==
    /\ allocated' = release_opt(allocated, assigned_tcp_port[c])
    /\ double_release' = (double_release \/ ReleasedFree(allocated, assigned_tcp_port[c]))
    /\ rx_open' = [rx_open EXCEPT ![c] = FALSE]
    /\ chan' = [chan EXCEPT ![c] = <<>>]
    /\ pc' = [pc EXCEPT ![c] = "closed"]
    /\ lost' = [r \in Reqs |->
         lost[r] \/ (hconn[r] = c /\ hsent[r] /\ hpc[r] = "waiting"
                     /\ oneshot[r] = None)]
    /\ UNCHANGED extVars

\* cleanup: router.unregister(subdomain) if a subdomain is assigned
Teardown(c) ==
    /\ pc[c] = "cleanup"
    /\ IF IsSome(assigned_subdomain[c])
          /\ Unwrap(assigned_subdomain[c]) \in DOMAIN routes
       THEN LET sub == Unwrap(assigned_subdomain[c])
            IN  /\ routes' = unregister_routes(routes, sub)
                /\ tcp_ports' = unregister_tcp_ports(routes, tcp_ports, sub)
                /\ cur' = [cur EXCEPT ![c].rec = routes[sub].dns_record_id]
                /\ pc' = [pc EXCEPT ![c] = "dns_delete"]
                /\ UNCHANGED <<allocated, double_release, rx_open, chan, lost>>
       ELSE /\ TeardownFinish(c)
            /\ UNCHANGED <<routes, tcp_ports, cur>>
    /\ UNCHANGED <<read_buf, nread, budget, assigned_subdomain, assigned_tcp_port, pending>>
    /\ UNCHANGED <<listeners, dns_records, tcpVars>>
    /\ UNCHANGED httpVars
    /\ UNCHANGED <<frame_error, got_request, established, registered_by, alloc_by,
                   resolved, hsent>>
    /\ UNCHANGED extVars

\* cleanup: cloudflare.delete_record(&record_id).await (a failure is logged),
\* then the rest of the cleanup section
TeardownDns(c, delete_ok) ==
    /\ pc[c] = "dns_delete"
    /\   dns_records' = IF delete_ok /\ IsSome(cur[c].rec)
                        THEN {d \in dns_records : d.id # Unwrap(cur[c].rec)}
                        ELSE dns_records
    /\ TeardownFinish(c)
    /\ cur' = [cur EXCEPT ![c] = NoCur]
    /\ UNCHANGED <<read_buf, nread, budget, assigned_subdomain, assigned_tcp_port, pending>>
    /\ UNCHANGED <<routerVars, listeners, tcpVars>>
    /\ UNCHANGED httpVars
    /\ UNCHANGED <<frame_error, got_request, established, registered_by, alloc_by,
                   resolved, hsent>>
    /\ UNCHANGED extVars

\* writer task: rx.recv() returned a message, encode and write_all succeeded
Writer(c) ==
    /\ rx_open[c]
    /\ chan[c] # <<>>
    /\ chan' = [chan EXCEPT ![c] = Tail(@)]
    /\ wire' = [wire EXCEPT ![c] = Some(Head(chan[c]))]
    /\ s2c' = IF peer = "client" THEN [s2c EXCEPT ![c] = Append(@, Head(chan[c]))] ELSE s2c
    /\ UNCHANGED <<pc, read_buf, nread, budget, assigned_subdomain, assigned_tcp_port, cur,
                   pending, rx_open>>
    /\ UNCHANGED <<routerVars, resVars, httpVars, tcpVars, histVars>>
    /\ UNCHANGED <<codecVars, cap, peer, denied, fwdVars, mainVars, clientVars, traceVars>>

\* writer task: encode or write_all returned Err: break, rx is dropped
WriterFail(c) ==
    /\ rx_open[c]
    /\ chan[c] # <<>>
    /\ chan' = [chan EXCEPT ![c] = <<>>]
    /\ rx_open' = [rx_open EXCEPT ![c] = FALSE]
    /\ UNCHANGED <<pc, read_buf, nread, budget, assigned_subdomain, assigned_tcp_port, cur,
                   pending>>
    /\ UNCHANGED <<routerVars, resVars, httpVars, tcpVars, histVars>>
    /\ UNCHANGED extVars

\* ------------------------------------------------ HttpPlane::handle_request
\* the prefix of s before the first occurrence of ch (str::split(ch).next())
FirstPart(s, ch) ==
    LET idx == {i \in 1..Len(s) : s[i] = ch}
    IN  IF idx = {} THEN s
        ELSE SubSeq(s, 1, (CHOOSE i \in idx : \A j \in idx : i <= j) - 1)

\* str::ends_with
ends_with(s, suffix) ==
    /\ Len(suffix) <= Len(s)
    /\ SubSeq(s, Len(s) - Len(suffix) + 1, Len(s)) = suffix

\* str::strip_suffix
strip_suffix(s, suffix) ==
    IF ends_with(s, suffix) THEN Some(SubSeq(s, 1, Len(s) - Len(suffix))) ELSE None

\* HttpPlane::extract_subdomain on the Host header (None: no header)
extract_subdomain(host_header) ==
    IF ~IsSome(host_header) THEN None
    ELSE LET host == FirstPart(Unwrap(host_header), ":")
             subdomain_part == strip_suffix(host, <<".">> \o base_domain)
         IN  IF ~ends_with(host, base_domain) THEN None
             ELSE IF ~IsSome(subdomain_part) THEN None
             ELSE Some(FirstPart(Unwrap(subdomain_part), "."))

\* HttpResponseData: what a client's HttpResponse carries
Response(status, body) == [status |-> status, headers |-> <<>>, body |-> body]

\* the hyper Response handle_request returns, with the arm that built it
Answer(arm, status, headers, body) ==
    [arm |-> arm, status |-> status, headers |-> headers, body |-> body]

\* HttpPlane::next_stream_id: fetch_add(1) on the plane's own counter
next_stream_id(counter) == counter

\* handle_request up to the send: extract_subdomain, get_sender,
\* next_stream_id, req.into_body().collect().await, response_registry.insert
HttpLookup(r, host_header, body_ok) ==
    /\ hpc[r] = "idle"
    /\ \A q \in Reqs : q < r => hpc[q] # "idle"
    /\ hhost' = [hhost EXCEPT ![r] = host_header]
    /\ LET subdomain == extract_subdomain(host_header)
           sender == IF IsSome(subdomain) THEN get_sender(routes, Unwrap(subdomain))
                     ELSE None
           stream_id == next_stream_id(stream_id_counter)
       IN  IF ~IsSome(subdomain)
           THEN /\ hresp' = [hresp EXCEPT ![r] =
                        Some(Answer("bad_host", BAD_REQUEST, <<>>, "Invalid or missing subdomain"))]
                /\ hpc' = [hpc EXCEPT ![r] = "done"]
                /\ UNCHANGED <<hsid, hconn, stream_id_counter, response_registry>>
           ELSE IF ~IsSome(sender)
           THEN /\ hresp' = [hresp EXCEPT ![r] =
                        Some(Answer("no_tunnel", NOT_FOUND, <<>>, "Tunnel not found"))]
                /\ hpc' = [hpc EXCEPT ![r] = "done"]
                /\ UNCHANGED <<hsid, hconn, stream_id_counter, response_registry>>
           ELSE /\ hconn' = [hconn EXCEPT ![r] = Unwrap(sender)]
                /\ hsid' = [hsid EXCEPT ![r] = stream_id]
                /\ stream_id_counter' = stream_id_counter + 1
                /\ IF body_ok
                   THEN /\ response_registry' = MapInsert(response_registry, stream_id, r)
                        /\ hpc' = [hpc EXCEPT ![r] = "sending"]
                        /\ UNCHANGED hresp
                   ELSE /\ hresp' = [hresp EXCEPT ![r] =
                               Some(Answer("body_error", INTERNAL_SERVER_ERROR, <<>>,
                                           "Failed to read request body"))]
                        /\ hpc' = [hpc EXCEPT ![r] = "done"]
                        /\ UNCHANGED response_registry
    /\ UNCHANGED oneshot
    /\ UNCHANGED <<ctlVars, routerVars, resVars, tcpVars, histVars>>
    /\ UNCHANGED extVars

\* a cleanup that leaves the sink in the registry
sink_remove_none(reg, stream_id) == reg

\* self.response_registry.remove(&stream_id) of handle_request
sink_remove(reg, stream_id) == MapRemove(reg, stream_id)

\* the sink of stream_id left the registry in this step
Resolved(reg, reg2, stream_id) ==
    IF stream_id \in DOMAIN reg /\ stream_id \notin DOMAIN reg2 THEN 1 ELSE 0

\* sender.send(msg).await: on Err remove the sink and answer 502
HttpSend(r) ==
    /\ hpc[r] = "sending"
    /\ CanSend(hconn[r])
    /\ chan' = Sent(hconn[r], HttpRequest(hsid[r], hhost[r]))
    /\ IF rx_open[hconn[r]]
       THEN /\ hpc' = [hpc EXCEPT ![r] = "waiting"]
            /\ hsent' = [hsent EXCEPT ![r] = TRUE]
            /\ UNCHANGED <<response_registry, resolved, hresp>>
       ELSE /\ response_registry' = sink_remove(response_registry, hsid[r])
            /\ resolved' = [resolved EXCEPT ![r] =
                    @ + Resolved(response_registry, response_registry', hsid[r])]
            /\ hresp' = [hresp EXCEPT ![r] =
                    Some(Answer("send_failed", BAD_GATEWAY, <<>>, "Tunnel connection lost"))]
            /\ hpc' = [hpc EXCEPT ![r] = "done"]
            /\ UNCHANGED hsent
    /\ UNCHANGED <<stream_id_counter, hhost, hsid, hconn, oneshot>>
    /\ UNCHANGED <<pc, read_buf, nread, budget, assigned_subdomain, assigned_tcp_port, cur,
                   pending, rx_open>>
    /\ UNCHANGED <<routerVars, resVars, tcpVars>>
    /\ UNCHANGED <<frame_error, got_request, established, registered_by, alloc_by,
                   double_release, lost>>
    /\ UNCHANGED extVars

\* the oneshot sender of request r was dropped without a send
SinkClosed(r) == oneshot[r] = None /\ hsid[r] \notin DOMAIN response_registry

\* Response::builder().status(u16): the builder holds an error unless the
\* value is a status code, and then .body(..) is Err
builder_ok(data) == data.status >= 100 /\ data.status <= 999

\* timeout(30 s, response_rx) completed with the receiver's result:
\* Ok(Ok(response_data)) or Ok(Err(_)).  Building the response ends in
\* .body(..).unwrap(), which panics on a builder error: the task serving the
\* requester's connection dies and nothing is written to the requester.
HttpRecv(r) ==
    /\ hpc[r] = "waiting"
    /\ IsSome(oneshot[r]) \/ SinkClosed(r)
    /\ IF IsSome(oneshot[r])
       THEN IF builder_ok(Unwrap(oneshot[r]).data)
            THEN /\ hresp' = [hresp EXCEPT ![r] =
                        Some(Answer("response", Unwrap(oneshot[r]).data.status,
                                    Unwrap(oneshot[r]).data.headers,
                                    Unwrap(oneshot[r]).data.body))]
                 /\ hpc' = [hpc EXCEPT ![r] = "done"]
            ELSE /\ hpc' = [hpc EXCEPT ![r] = "panicked"]
                 /\ UNCHANGED hresp
       ELSE /\ hresp' = [hresp EXCEPT ![r] =
                   Some(Answer("closed", BAD_GATEWAY, <<>>, "Tunnel disconnected"))]
            /\ hpc' = [hpc EXCEPT ![r] = "done"]
    /\ UNCHANGED <<stream_id_counter, response_registry, hhost, hsid, hconn, oneshot>>
    /\ UNCHANGED <<ctlVars, routerVars, resVars, tcpVars, histVars>>
    /\ UNCHANGED extVars

\* timeout(30 s, response_rx) completed with Err(Elapsed): the receiver was
\* polled first and had nothing
HttpTimeout(r) ==
    /\ hpc[r] = "waiting"
    /\ oneshot[r] = None
    /\ ~SinkClosed(r)
    /\ hpc' = [hpc EXCEPT ![r] = "timedout"]
    /\ UNCHANGED <<stream_id_counter, response_registry, hhost, hsid, hconn,
                   oneshot, hresp>>
    /\ UNCHANGED <<ctlVars, routerVars, resVars, tcpVars, histVars>>
    /\ UNCHANGED extVars

\* the Err(_) arm: response_registry.remove(&stream_id), answer 504
HttpTimeoutCleanup(r) ==
    /\ hpc[r] = "timedout"
    /\ response_registry' = sink_remove(response_registry, hsid[r])
    /\ resolved' = [resolved EXCEPT ![r] =
            @ + Resolved(response_registry, response_registry', hsid[r])]
    /\ hresp' = [hresp EXCEPT ![r] =
            Some(Answer("timeout", GATEWAY_TIMEOUT, <<>>, "Tunnel response timeout"))]
    /\ hpc' = [hpc EXCEPT ![r] = "done"]
    /\ UNCHANGED <<stream_id_counter, hhost, hsid, hconn, oneshot>>
    /\ UNCHANGED <<ctlVars, routerVars, resVars, tcpVars>>
    /\ UNCHANGED <<frame_error, got_request, established, registered_by, alloc_by,
                   double_release, lost, hsent>>
    /\ UNCHANGED extVars

\* ------------------------------------------------------------------ TcpPlane
\* StreamIdGenerator::next: fetch_add(1) on the generator's counter
\* StreamIdGenerator::next: fetch_add returns the value before the add
stream_id_next(counter) == counter

\* a removal that leaves the entry in the registry
TcpRegistryRemove_none(reg, stream_id) == reg

\* tcp_registry.remove(&stream_id)
TcpRegistryRemove(reg, stream_id) == MapRemove(reg, stream_id)

\* listener.accept() returned a connection on a bound listener, then
\* handle_tcp_connection up to the TcpConnect send: next(), get_sender,
\* channel creation, tcp_registry.insert
TcpAccept(t, l) ==
    /\ tpc[t] = "idle"
    /\ l \in listeners
    /\ tsid' = [tsid EXCEPT ![t] = stream_id_next(stream_id_gen)]
    /\ stream_id_gen' = stream_id_gen + 1
    /\ tsub' = [tsub EXCEPT ![t] = l.subdomain]
    /\ LET sender == get_sender(routes, l.subdomain)
       IN  IF IsSome(sender)
           THEN /\ tconn' = [tconn EXCEPT ![t] = Unwrap(sender)]
                /\ tcp_registry' = MapInsert(tcp_registry, stream_id_next(stream_id_gen), t)
                /\ twpc' = [twpc EXCEPT ![t] = "run"]
                /\ tpc' = [tpc EXCEPT ![t] = "connect"]
           ELSE /\ tpc' = [tpc EXCEPT ![t] = "closed"]
                /\ UNCHANGED <<tconn, tcp_registry, twpc>>
    /\ UNCHANGED twq
    /\ UNCHANGED <<ctlVars, routerVars, resVars, httpVars, histVars>>
    /\ UNCHANGED extVars

\* tunnel_sender.send(TcpConnect).await; on Err remove the registry entry
TcpSendConnect(t) ==
    /\ tpc[t] = "connect"
    /\ CanSend(tconn[t])
    /\ chan' = Sent(tconn[t], TcpConnect(tsid[t]))
    /\ IF rx_open[tconn[t]]
       THEN /\ tpc' = [tpc EXCEPT ![t] = "open"]
            /\ UNCHANGED <<tcp_registry, twpc, twq>>
       ELSE /\ tcp_registry' = TcpRegistryRemove(tcp_registry, tsid[t])
            /\ twpc' = [twpc EXCEPT ![t] = "done"]
            /\ twq' = [twq EXCEPT ![t] = <<>>]
            /\ tpc' = [tpc EXCEPT ![t] = "closed"]
    /\ UNCHANGED <<stream_id_gen, tsid, tsub, tconn>>
    /\ UNCHANGED <<pc, read_buf, nread, budget, assigned_subdomain, assigned_tcp_port, cur,
                   pending, rx_open>>
    /\ UNCHANGED <<routerVars, resVars, httpVars, histVars>>
    /\ UNCHANGED extVars

\* after the read loop: tcp_registry.remove, write_task.abort()
ReaderCleanup(t) ==
    /\ tcp_registry' = TcpRegistryRemove(tcp_registry, tsid[t])
    /\ twpc' = [twpc EXCEPT ![t] = IF @ = "done" THEN "done" ELSE "aborted"]
    /\ twq' = [twq EXCEPT ![t] = <<>>]
    /\ tpc' = [tpc EXCEPT ![t] = "close_send"]

\* read loop: read_half.read returned Ok(n), n > 0: send TcpData, break on Err
TcpExtData(t, data) ==
    /\ tpc[t] = "open"
    /\ CanSend(tconn[t])
    /\ chan' = Sent(tconn[t], ServerTcpData(tsid[t], data))
    /\ ext_out' = IF peer = "client" THEN [ext_out EXCEPT ![t] = @ + 1] ELSE ext_out
    /\ IF rx_open[tconn[t]]
       THEN UNCHANGED <<tcp_registry, twpc, twq, tpc>>
       ELSE ReaderCleanup(t)
    /\ UNCHANGED <<stream_id_gen, tsid, tsub, tconn>>
    /\ UNCHANGED <<pc, read_buf, nread, budget, assigned_subdomain, assigned_tcp_port, cur,
                   pending, rx_open>>
    /\ UNCHANGED <<routerVars, resVars, httpVars, histVars>>
    /\ UNCHANGED <<codecVars, linkVars, peer, denied, fwdVars, mainVars, s2c, clientVars>>
    /\ UNCHANGED <<ext_in, local_out, local_in, sclose, cclose>>

\* read loop: read_half.read returned Ok(0) or Err: break
TcpExtEof(t) ==
    /\ tpc[t] = "open"
    /\ ReaderCleanup(t)
    /\ UNCHANGED <<stream_id_gen, tsid, tsub, tconn>>
    /\ UNCHANGED <<ctlVars, routerVars, resVars, httpVars, histVars>>
    /\ UNCHANGED extVars

\* the final `let _ = tunnel_sender.send(TcpClose).await` of the handler
TcpSendClose(t) ==
    /\ tpc[t] = "close_send"
    /\ CanSend(tconn[t])
    /\ chan' = Sent(tconn[t], ServerTcpClose(tsid[t]))
    /\ sclose' = CloseEnqueued(sclose, tconn[t], t)
    /\ tpc' = [tpc EXCEPT ![t] = "closed"]
    /\ UNCHANGED <<stream_id_gen, tcp_registry, tsid, tsub, tconn, twq, twpc>>
    /\ UNCHANGED <<pc, read_buf, nread, budget, assigned_subdomain, assigned_tcp_port, cur,
                   pending, rx_open>>
    /\ UNCHANGED <<routerVars, resVars, httpVars, histVars>>
    /\ UNCHANGED <<codecVars, linkVars, peer, denied, fwdVars, mainVars, s2c, clientVars>>
    /\ UNCHANGED <<ext_out, ext_in, local_out, local_in, cclose>>

\* write task: write_rx.recv() returned data; write_all, break on Err
TcpWrite(t) ==
    /\ tpc[t] = "open"
    /\ twpc[t] = "run"
    /\ twq[t] # <<>>
    /\ twq' = [twq EXCEPT ![t] = Tail(@)]
    /\ \E write_ok \in BOOLEAN :
         /\ twpc' = [twpc EXCEPT ![t] = IF write_ok THEN "run" ELSE "closing"]
         /\ ext_in' = IF write_ok /\ peer = "client"
                      THEN [ext_in EXCEPT ![t] = Append(@, Head(twq[t]))]
                      ELSE ext_in
    /\ UNCHANGED <<stream_id_gen, tcp_registry, tpc, tsid, tsub, tconn>>
    /\ UNCHANGED <<ctlVars, routerVars, resVars, httpVars, histVars>>
    /\ UNCHANGED <<codecVars, linkVars, peer, denied, fwdVars, mainVars, s2c, clientVars>>
    /\ UNCHANGED <<ext_out, local_out, local_in, sclose, cclose>>

\* every clone of write_tx is gone: the registry entry and the clone a
\* TcpData handler holds while it sends
WriteTxDropped(t) ==
    /\ \A sid \in DOMAIN tcp_registry : tcp_registry[sid] # t
    /\ \A c \in Conns : ~(pc[c] = "tcp_send" /\ Unwrap(pending[c]).writer = t)

\* write task: write_rx.recv() returned None
TcpWriteEnd(t) ==
    /\ tpc[t] = "open"
    /\ twpc[t] = "run"
    /\ twq[t] = <<>>
    /\ WriteTxDropped(t)
    /\ twpc' = [twpc EXCEPT ![t] = "closing"]
    /\ UNCHANGED <<stream_id_gen, tcp_registry, tpc, tsid, tsub, tconn, twq>>
    /\ UNCHANGED <<ctlVars, routerVars, resVars, httpVars, histVars>>
    /\ UNCHANGED extVars

\* write task after its loop: send TcpClose, tcp_registry.remove
TcpWriteClose(t) ==
    /\ twpc[t] = "closing"
    /\ CanSend(tconn[t])
    /\ chan' = Sent(tconn[t], ServerTcpClose(tsid[t]))
    /\ sclose' = CloseEnqueued(sclose, tconn[t], t)
    /\ tcp_registry' = TcpRegistryRemove(tcp_registry, tsid[t])
    /\ twpc' = [twpc EXCEPT ![t] = "done"]
    /\ twq' = [twq EXCEPT ![t] = <<>>]
    /\ UNCHANGED <<stream_id_gen, tpc, tsid, tsub, tconn>>
    /\ UNCHANGED <<pc, read_buf, nread, budget, assigned_subdomain, assigned_tcp_port, cur,
                   pending, rx_open>>
    /\ UNCHANGED <<routerVars, resVars, httpVars, histVars>>
    /\ UNCHANGED <<codecVars, linkVars, peer, denied, fwdVars, mainVars, s2c, clientVars>>
    /\ UNCHANGED <<ext_out, ext_in, local_out, local_in, cclose>>

\* ------------------------------------------------------------- environment
SubA == <<"a">>
SubB == <<"b">>
HostA == <<"a", ".", "t">>
HostB == <<"b", ".", "t">>
OkFrame(msg) == Frame(1, msg)

\* frames of the negotiation scenarios
NegFrames ==
    {OkFrame(RequestTunnel(Some(SubA), tt)) : tt \in {"http", "tcp"}}
    \cup {OkFrame(RequestTunnel(Some(SubB), "tcp"))}
    \cup {OkFrame(Ping(7)), OkFrame(Garbage), Frame(MAX_FRAME_SIZE + 1, Garbage)}

\* the connection task and its writer task
ConnStep(c) ==
    \/ ReadEof(c)
    \/ DispatchRequestTunnel(c)
    \/ RegisterInsert(c)
    \/ SendReply(c)
    \/ Teardown(c)
    \/ Writer(c)

\* the outcomes of the external collaborators: TLS handshake, DNS provider
ConnEnv(c, outcomes) ==
    \/ \E tls_ok \in outcomes : Accept(c, tls_ok)
    \/ \E dns_ok \in outcomes : Dns(c, dns_ok)
    \/ \E delete_ok \in outcomes : TeardownDns(c, delete_ok)

Next ==
    \/ \E c \in Conns : ConnStep(c)
    \/ \E c \in Conns : ConnEnv(c, BOOLEAN)
    \/ \E c \in Conns, bind_ok \in BOOLEAN : Bind(c, bind_ok)
    \/ \E c \in Conns : DecodeErr(c) \/ DispatchPing(c) \/ WriterFail(c)
    \/ \E c \in Conns, f \in NegFrames : ReadFrame(c, f)

Spec == Init /\ [][Next]_vars

\* ------------------------------------------------- HTTP ingress scenarios
\* the state after connection 1 negotiated the HTTP tunnel "a" and its
\* TunnelEstablished was written: Accept, ReadFrame, DispatchRequestTunnel,
\* Dns, RegisterInsert, SendReply, Writer from Init
InitHttpWith(capacity) ==
    /\ pc = [c \in Conns |-> IF c = 1 THEN "read" ELSE "init"]
    /\ read_buf = [c \in Conns |-> <<>>]
    /\ nread = [c \in Conns |-> IF c = 1 THEN 1 ELSE 0]
    /\ budget = MaxFrames
    /\ assigned_subdomain = [c \in Conns |-> IF c = 1 THEN Some(SubA) ELSE None]
    /\ assigned_tcp_port = [c \in Conns |-> None]
    /\ cur = [c \in Conns |-> NoCur]
    /\ pending = [c \in Conns |-> None]
    /\ chan = [c \in Conns |-> <<>>]
    /\ rx_open = [c \in Conns |-> c = 1]
    /\ routes = MapInsert(EmptyMap, SubA,
                  [sender |-> 1, tunnel_type |-> "http", dns_record_id |-> Some(<<1, 1>>)])
    /\ tcp_ports = EmptyMap
    /\ allocated = {}
    /\ listeners = {}
    /\ dns_records = {[id |-> <<1, 1>>, subdomain |-> SubA, proxied |-> TRUE]}
    /\ stream_id_counter = FirstStreamId
    /\ response_registry = EmptyMap
    /\ hpc = [r \in Reqs |-> "idle"]
    /\ hhost = [r \in Reqs |-> None]
    /\ hsid = [r \in Reqs |-> 0]
    /\ hconn = [r \in Reqs |-> 0]
    /\ oneshot = [r \in Reqs |-> None]
    /\ hresp = [r \in Reqs |-> None]
    /\ stream_id_gen = FirstStreamId
    /\ tcp_registry = EmptyMap
    /\ tpc = [t \in Tcps |-> "idle"]
    /\ tsid = [t \in Tcps |-> 0]
    /\ tsub = [t \in Tcps |-> <<>>]
    /\ tconn = [t \in Tcps |-> 0]
    /\ twq = [t \in Tcps |-> <<>>]
    /\ twpc = [t \in Tcps |-> "idle"]
    /\ frame_error = [c \in Conns |-> FALSE]
    /\ got_request = [c \in Conns |-> c = 1]
    /\ established = {<<1, SubA>>}
    /\ registered_by = [c \in Conns |-> IF c = 1 THEN {SubA} ELSE {}]
    /\ alloc_by = [p \in Ports |-> 0]
    /\ double_release = FALSE
    /\ lost = [r \in Reqs |-> FALSE]
    /\ resolved = [r \in Reqs |-> 0]
    /\ hsent = [r \in Reqs |-> FALSE]
    /\ ExtStart(capacity)

InitHttp == InitHttpWith(MaxQueue)

\* the (status, headers, body) a client answers stream sid with
RespData(sid) == IF sid = FirstStreamId THEN Response(200, "x") ELSE Response(201, "y")

\* everything a client answers stream sid with: the first stream may also
\* be answered with a status that is no HTTP status code
ClientAnswers(sid) ==
    {RespData(sid)} \cup (IF sid = FirstStreamId THEN {Response(99, "z")} ELSE {})

HttpFrames ==
    {OkFrame(RequestTunnel(Some(s), "http")) : s \in {SubA, SubB}}
    \cup UNION {{OkFrame(HttpResponse(sid, d)) : d \in ClientAnswers(sid)} :
                   sid \in 1..MaxReqs}

HttpHosts == {Some(HostA), Some(HostB)}

\* HttpPlane::handle_request for request r
HttpStep(r) ==
    \/ HttpSend(r)
    \/ HttpRecv(r)
    \/ HttpTimeout(r)
    \/ HttpTimeoutCleanup(r)

NextHttp ==
    \/ \E c \in Conns : ConnStep(c)
    \/ \E c \in Conns : ConnEnv(c, {TRUE})
    \/ \E c \in Conns : DispatchHttpResponse(c)
    \/ \E c \in Conns, f \in HttpFrames : ReadFrame(c, f)
    \/ \E r \in Reqs : HttpStep(r)
    \/ \E r \in Reqs, h \in HttpHosts, body_ok \in BOOLEAN : HttpLookup(r, h, body_ok)

SpecHttp == InitHttp /\ [][NextHttp]_vars

\* --------------------------------------------------- stream id scenarios
\* the state after connection 1 negotiated the HTTP tunnel "a" and
\* connection 2 the TCP tunnel "b" on the first port of the range, both
\* TunnelEstablished written
InitStreamsWith(frames, capacity, far_end) ==
    /\ pc = [c \in Conns |-> IF c <= 2 THEN "read" ELSE "init"]
    /\ read_buf = [c \in Conns |-> <<>>]
    /\ nread = [c \in Conns |-> IF c <= 2 THEN 1 ELSE 0]
    /\ budget = frames
    /\ assigned_subdomain = [c \in Conns |->
          IF c = 1 THEN Some(SubA) ELSE IF c = 2 THEN Some(SubB) ELSE None]
    /\ assigned_tcp_port = [c \in Conns |-> IF c = 2 THEN Some(PortStart) ELSE None]
    /\ cur = [c \in Conns |-> NoCur]
    /\ pending = [c \in Conns |-> None]
    /\ chan = [c \in Conns |-> <<>>]
    /\ rx_open = [c \in Conns |-> c <= 2]
    /\ routes = MapInsert(MapInsert(EmptyMap, SubA,
                    [sender |-> 1, tunnel_type |-> "http", dns_record_id |-> Some(<<1, 1>>)]),
                  SubB,
                    [sender |-> 2, tunnel_type |-> "tcp", dns_record_id |-> Some(<<2, 1>>)])
    /\ tcp_ports = MapInsert(EmptyMap, PortStart, SubB)
    /\ allocated = {PortStart}
    /\ listeners = {[port |-> PortStart, subdomain |-> SubB]}
    /\ dns_records = {[id |-> <<1, 1>>, subdomain |-> SubA, proxied |-> TRUE],
                      [id |-> <<2, 1>>, subdomain |-> SubB, proxied |-> FALSE]}
    /\ stream_id_counter = FirstStreamId
    /\ response_registry = EmptyMap
    /\ hpc = [r \in Reqs |-> "idle"]
    /\ hhost = [r \in Reqs |-> None]
    /\ hsid = [r \in Reqs |-> 0]
    /\ hconn = [r \in Reqs |-> 0]
    /\ oneshot = [r \in Reqs |-> None]
    /\ hresp = [r \in Reqs |-> None]
    /\ stream_id_gen = FirstStreamId
    /\ tcp_registry = EmptyMap
    /\ tpc = [t \in Tcps |-> "idle"]
    /\ tsid = [t \in Tcps |-> 0]
    /\ tsub = [t \in Tcps |-> <<>>]
    /\ tconn = [t \in Tcps |-> 0]
    /\ twq = [t \in Tcps |-> <<>>]
    /\ twpc = [t \in Tcps |-> "idle"]
    /\ frame_error = [c \in Conns |-> FALSE]
    /\ got_request = [c \in Conns |-> c <= 2]
    /\ established = {<<1, SubA>>, <<2, SubB>>}
    /\ registered_by = [c \in Conns |->
          IF c = 1 THEN {SubA} ELSE IF c = 2 THEN {SubB} ELSE {}]
    /\ alloc_by = [p \in Ports |-> IF p = PortStart THEN 2 ELSE 0]
    /\ double_release = FALSE
    /\ lost = [r \in Reqs |-> FALSE]
    /\ resolved = [r \in Reqs |-> 0]
    /\ hsent = [r \in Reqs |-> FALSE]
    /\ ExtStartWith(capacity, far_end)

InitStreams == InitStreamsWith(0, MaxQueue, "env")

\* handle_tcp_connection for external connection t, without its write task
TcpStep(t) ==
    \/ TcpSendConnect(t)
    \/ TcpExtEof(t)
    \/ TcpSendClose(t)

\* external requests and external TCP connections arrive while the clients
\* stay silent
NextStreams ==
    \/ \E c \in Conns : Writer(c)
    \/ \E r \in Reqs : HttpSend(r) \/ HttpTimeout(r) \/ HttpTimeoutCleanup(r)
    \/ \E r \in Reqs, h \in HttpHosts : HttpLookup(r, h, TRUE)
    \/ \E t \in Tcps, l \in listeners : TcpAccept(t, l)
    \/ \E t \in Tcps : TcpStep(t)
    \/ \E t \in Tcps : TcpExtData(t, "d")

SpecStreams == InitStreams /\ [][NextStreams]_vars

\* ------------------------------------------------------------------ claims
\* connection c has not yet run router.unregister in its cleanup section
BeforeUnregister(c) == pc[c] \notin {"init", "dns_delete", "closed"}

\* C1: at any instant at most one live connection holds a given subdomain:
\* no two connections that were both answered TunnelEstablished for the same
\* subdomain hold it as their assigned subdomain at the same time (the other
\* negotiation fails, the first entry is not overwritten)
C1_OneTunnelPerSubdomain ==
    \A c1 \in Conns, c2 \in Conns :
        (/\ c1 # c2
         /\ BeforeUnregister(c1) /\ BeforeUnregister(c2)
         /\ IsSome(assigned_subdomain[c1])
         /\ <<c1, Unwrap(assigned_subdomain[c1])>> \in established
         /\ <<c2, Unwrap(assigned_subdomain[c1])>> \in established)
        => assigned_subdomain[c2] # assigned_subdomain[c1]

\* the handler of request r is over: it returned an answer or it panicked
Finished(r) == hpc[r] \in {"done", "panicked"}

\* C2: the sink of a request leaves the registry at most once; once the
\* handler of a request whose HttpRequest frame was enqueued is over, its
\* sink was resolved exactly once (response, deadline expiry or tunnel
\* loss), no sink is left behind, and the requester got exactly one answer,
\* which is the client's response, a 504 or a 502
C2_ExactlyOneResolution ==
    \A r \in Reqs :
        /\ resolved[r] <= 1
        /\ hpc[r] # "done" => hresp[r] = None
        /\ (Finished(r) /\ hsent[r]) =>
              /\ resolved[r] = 1
              /\ hsid[r] \notin DOMAIN response_registry
              /\ IsSome(hresp[r])
              /\ Unwrap(hresp[r]).arm \in {"response", "timeout", "closed"}

\* C3: a request that was pending when its tunnel's connection was torn
\* down is answered 502 "Tunnel disconnected"
C3_TeardownAnswers502 ==
    \A r \in Reqs :
        (lost[r] /\ hpc[r] = "done") =>
            /\ Unwrap(hresp[r]).status = BAD_GATEWAY
            /\ Unwrap(hresp[r]).body = "Tunnel disconnected"

\* C4: once a connection's teardown has finished, the routing map holds no
\* entry whose sender belongs to that connection
C4_NoRouteAfterTeardown ==
    \A c \in Conns :
        pc[c] = "closed" =>
            \A sub \in DOMAIN routes : routes[sub].sender # c

\* C5: once a connection's teardown has finished, no port allocated during
\* one of its negotiations is still marked allocated, and no release ever
\* hit a port that was already free
C5_PortsReleasedOnce ==
    /\ \A c \in Conns :
          pc[c] = "closed" => \A p \in allocated : alloc_by[p] # c
    /\ ~double_release

\* the stream ids handed out so far, by stream
HttpIds == {<<"http", r, hsid[r]>> : r \in {q \in Reqs : hsid[q] # 0}}
TcpIds == {<<"tcp", t, tsid[t]>> : t \in {u \in Tcps : tsid[u] # 0}}

\* C6: no two streams, HTTP requests or TCP connections, were assigned the
\* same stream_id
C6_StreamIdsUnique ==
    \A x \in HttpIds \cup TcpIds : \A y \in HttpIds \cup TcpIds :
        x # y => x[3] # y[3]

\* C7: the server replies to nothing received before RequestTunnel: a Pong is
\* queued or about to be sent only on a connection that has dispatched a
\* RequestTunnel
C7_RequestTunnelFirst ==
    \A c \in Conns :
        (\/ (IsSome(pending[c]) /\ pc[c] = "send" /\ Unwrap(pending[c]).type = "pong")
         \/ \E i \in 1..Len(chan[c]) : chan[c][i].type = "pong")
        => got_request[c]

\* C8: after a frame error (declared length above 16 MiB, or a payload that
\* does not decode) the connection task is in teardown: it neither reads nor
\* dispatches any later frame
C8_FrameErrorFatal ==
    \A c \in Conns :
        frame_error[c] => pc[c] \in {"cleanup", "dns_delete", "closed"}

\* request r was answered with the response a client sent through the tunnel
ViaTunnel(r) == hpc[r] = "done" /\ IsSome(hresp[r]) /\ Unwrap(hresp[r]).arm = "response"

\* C9: a requester that is answered through the tunnel receives the status,
\* headers and body of the HttpResponse frame whose stream_id is the id
\* minted for its own request
C9_ResponseMatchesStream ==
    \A r \in Reqs :
        ViaTunnel(r) =>
            /\ IsSome(oneshot[r])
            /\ Unwrap(oneshot[r]).stream_id = hsid[r]
            /\ Unwrap(hresp[r]).status = Unwrap(oneshot[r]).data.status
            /\ Unwrap(hresp[r]).headers = Unwrap(oneshot[r]).data.headers
            /\ Unwrap(hresp[r]).body = Unwrap(oneshot[r]).data.body
            /\ Unwrap(oneshot[r]).data \in ClientAnswers(hsid[r])

\* C9 witness: two requests in flight on one tunnel, the one minted later
\* is answered through the tunnel while the earlier one still waits
C9_Witness ==
    \E r1 \in Reqs, r2 \in Reqs :
        /\ hsid[r1] # 0 /\ hsid[r1] < hsid[r2]
        /\ hconn[r1] = hconn[r2]
        /\ hpc[r1] = "waiting" /\ oneshot[r1] = None
        /\ ViaTunnel(r2)

\* C10: every HttpRequest frame on the outbound channel of a connection is
\* for a Host whose subdomain that connection registered
C10_RoutedToOwnTunnel ==
    \A c \in Conns : \A i \in 1..Len(chan[c]) :
        chan[c][i].type = "http_request" =>
            LET sub == extract_subdomain(chan[c][i].host)
            IN  IsSome(sub) /\ Unwrap(sub) \in registered_by[c]

\* C10 witness: two tunnels of two connections are registered and a request
\* for the second one is queued on the second connection's channel
C10_Witness ==
    /\ SubA \in DOMAIN routes /\ SubB \in DOMAIN routes
    /\ routes[SubA].sender # routes[SubB].sender
    /\ \E i \in 1..Len(chan[routes[SubB].sender]) :
          /\ chan[routes[SubB].sender][i].type = "http_request"
          /\ chan[routes[SubB].sender][i].host = Some(HostB)

\* ------------------------------------------------- HTTP ingress outcomes
\* a Host header under another domain
HostOther == <<"a", ".", "x">>

\* Host headers of external requests: none, the registered tunnel, a
\* subdomain with no tunnel, another domain
IngressHosts == {None, Some(HostA), Some(HostB), Some(HostOther)}

\* the frames the client of the tunnel sends: its answers
IngressFrames ==
    UNION {{OkFrame(HttpResponse(sid, d)) : d \in ClientAnswers(sid)} : sid \in 1..MaxReqs}

\* external requests against one established tunnel whose client answers,
\* stays silent or disconnects
NextIngress ==
    \/ \E c \in Conns : ReadEof(c) \/ Teardown(c) \/ Writer(c) \/ DispatchHttpResponse(c)
    \/ \E c \in Conns : TeardownDns(c, TRUE)
    \/ \E c \in Conns, f \in IngressFrames : ReadFrame(c, f)
    \/ \E r \in Reqs : HttpStep(r)
    \/ \E r \in Reqs, h \in IngressHosts, body_ok \in BOOLEAN : HttpLookup(r, h, body_ok)

SpecIngress == InitHttp /\ [][NextIngress]_vars

\* the request body of r could not be collected
BodyFailed(r) == hpc[r] = "done" /\ Unwrap(hresp[r]).arm = "body_error"

\* C11: every request whose handler is over (and whose body could be read)
\* was answered, with the status its outcome dictates: 400 exactly when the
\* Host header yields no subdomain, 404 when no tunnel was found (no stream
\* id minted), 502 when the send failed or the sink closed, 504 on deadline
\* expiry, and otherwise the status of the client's HttpResponse
C11_StatusByOutcome ==
    \A r \in Reqs :
        (Finished(r) /\ ~BodyFailed(r)) =>
            /\ IsSome(hresp[r])
            /\ LET a == Unwrap(hresp[r])
               IN  /\ (extract_subdomain(hhost[r]) = None) <=> (a.arm = "bad_host")
                   /\ a.arm = "bad_host" => a.status = BAD_REQUEST
                   /\ a.arm = "no_tunnel" => (a.status = NOT_FOUND /\ hsid[r] = 0)
                   /\ a.arm = "send_failed" => (a.status = BAD_GATEWAY /\ ~hsent[r])
                   /\ a.arm = "closed" => a.status = BAD_GATEWAY
                   /\ a.arm = "timeout" => a.status = GATEWAY_TIMEOUT
                   /\ a.arm = "response" =>
                         (IsSome(oneshot[r]) /\ a.status = Unwrap(oneshot[r]).data.status)

\* ---------------------------------------------------- TunnelCodec on bytes
\* The fields of each variant in declaration order (messages.rs), with the
\* kind of each value: "u" an unsigned integer, "str" a String, "opt_str"
\* Option<String>, "opt_u" Option<u16>, "tt" a TunnelType, "headers"
\* Vec<(String, String)>, "bytes" Vec<u8>.
Field(name, kind) == [name |-> name, kind |-> kind]

ClientSchema(tag) ==
    CASE tag = "request_tunnel" ->
            <<Field("subdomain", "opt_str"), Field("tunnel_type", "tt"),
              Field("local_port", "u")>>
      [] tag = "http_response" ->
            <<Field("stream_id", "u"), Field("status", "u"),
              Field("headers", "headers"), Field("body", "bytes")>>
      [] tag = "tcp_data" -> <<Field("stream_id", "u"), Field("data", "bytes")>>
      [] tag = "tcp_close" -> <<Field("stream_id", "u")>>
      [] tag = "ping" -> <<Field("timestamp", "u")>>

ServerSchema(tag) ==
    CASE tag = "tunnel_established" ->
            <<Field("subdomain", "str"), Field("url", "str"), Field("port", "opt_u")>>
      [] tag = "tunnel_denied" -> <<Field("reason", "str")>>
      [] tag = "http_request" ->
            <<Field("stream_id", "u"), Field("method", "str"), Field("uri", "str"),
              Field("headers", "headers"), Field("body", "bytes")>>
      [] tag = "tcp_connect" -> <<Field("stream_id", "u")>>
      [] tag = "tcp_data" -> <<Field("stream_id", "u"), Field("data", "bytes")>>
      [] tag = "tcp_close" -> <<Field("stream_id", "u")>>
      [] tag = "pong" -> <<Field("timestamp", "u")>>

ClientTags == {"request_tunnel", "http_response", "tcp_data", "tcp_close", "ping"}
ServerTags == {"tunnel_established", "tunnel_denied", "http_request", "tcp_connect",
               "tcp_data", "tcp_close", "pong"}

\* the variants and fields of the enum a codec is instantiated with
Tags(side) == IF side = "client" THEN ClientTags ELSE ServerTags
Schema(side, tag) == IF side = "client" THEN ClientSchema(tag) ELSE ServerSchema(tag)

\* Vec<u8> is kept run-length encoded: a sequence of runs of n equal bytes
Run(b, n) == [b |-> b, n |-> n]

\* number of decimal digits of an unsigned integer
RECURSIVE DecLen(_)
DecLen(n) == IF n < 10 THEN 1 ELSE 1 + DecLen(n \div 10)

RECURSIVE SumSeq(_)
SumSeq(s) == IF Len(s) = 0 THEN 0 ELSE Head(s) + SumSeq(Tail(s))

\* length of the JSON array of a list whose elements take the given lengths
ArrayLen(lens, count) == 2 + SumSeq(lens) + (IF count > 0 THEN count - 1 ELSE 0)

\* bytes serde_json writes for a value of the given kind (the strings of the
\* model need no escaping)
ValueLen(kind, v) ==
    CASE kind \in {"str", "tt", "tag"} -> Len(v) + 2
      [] kind = "u" -> DecLen(v)
      [] kind = "opt_str" -> IF IsSome(v) THEN Len(Unwrap(v)) + 2 ELSE 4
      [] kind = "opt_u" -> IF IsSome(v) THEN DecLen(Unwrap(v)) ELSE 4
      [] kind = "headers" ->
            ArrayLen([i \in 1..Len(v) |-> Len(v[i][1]) + Len(v[i][2]) + 7], Len(v))
      [] kind = "bytes" ->
            ArrayLen([i \in 1..Len(v) |-> v[i].n * DecLen(v[i].b)],
                     SumSeq([i \in 1..Len(v) |-> v[i].n]))

\* serde_json::to_vec of an internally tagged enum: the tag first, then the
\* fields in declaration order.  A JSON text is kept as its members.
Member(name, kind, value) == [name |-> name, kind |-> kind, value |-> value]

to_vec(item) ==
    LET schema == Schema(item.side, item.msg.type)
    IN  <<Member("type", "tag", item.msg.type)>>
        \o [i \in 1..Len(schema) |->
                Member(schema[i].name, schema[i].kind, item.msg[schema[i].name])]

\* json.len(): braces, "name":value members, commas
JsonLen(json) ==
    ArrayLen([i \in 1..Len(json) |->
                 Len(json[i].name) + 3 + ValueLen(json[i].kind, json[i].value)],
             Len(json))

\* the member of a JSON text with the given name, as a set (empty: missing)
Members(json, name) == {i \in 1..Len(json) : json[i].name = name}

\* serde_json::from_slice::<T> on a complete JSON text: the tag selects the
\* variant of T, every field of the variant must be present with its kind
from_json(json, side) ==
    IF Members(json, "type") = {} THEN None
    ELSE LET tag == json[CHOOSE i \in Members(json, "type") : TRUE].value
         IN  IF json[CHOOSE i \in Members(json, "type") : TRUE].kind # "tag" THEN None
             ELSE IF tag \notin Tags(side) THEN None
             ELSE LET schema == Schema(side, tag)
                      names == {schema[i].name : i \in 1..Len(schema)}
                      ok == \A i \in 1..Len(schema) :
                               \E j \in Members(json, schema[i].name) :
                                   json[j].kind = schema[i].kind
                  IN  IF ~ok THEN None
                      ELSE Some([f \in names \cup {"type"} |->
                                   json[CHOOSE j \in Members(json, f) : TRUE].value])

\* A BytesMut is a sequence of pieces: single bytes (the length prefix) and
\* slices from..to of the bytes of a JSON text
Byte(v) == [kind |-> "byte", value |-> v]
Slice(json, from, to) == [kind |-> "slice", json |-> json, from |-> from, to |-> to]

PieceLen(p) == IF p.kind = "byte" THEN 1 ELSE p.to - p.from + 1

\* BytesMut::len
RECURSIVE BufLen(_)
BufLen(buf) == IF Len(buf) = 0 THEN 0 ELSE PieceLen(Head(buf)) + BufLen(Tail(buf))

\* the first n bytes of a buffer (BytesMut::split_to returns them)
RECURSIVE TakeBytes(_, _)
TakeBytes(buf, n) ==
    IF n <= 0 \/ Len(buf) = 0 THEN <<>>
    ELSE IF PieceLen(Head(buf)) <= n
         THEN <<Head(buf)>> \o TakeBytes(Tail(buf), n - PieceLen(Head(buf)))
         ELSE <<Slice(Head(buf).json, Head(buf).from, Head(buf).from + n - 1)>>

\* the buffer without its first n bytes (Buf::advance, what split_to leaves)
RECURSIVE DropBytes(_, _)
DropBytes(buf, n) ==
    IF n <= 0 \/ Len(buf) = 0 THEN buf
    ELSE IF PieceLen(Head(buf)) <= n
         THEN DropBytes(Tail(buf), n - PieceLen(Head(buf)))
         ELSE <<Slice(Head(buf).json, Head(buf).from + n, Head(buf).to)>> \o Tail(buf)

\* the two pieces are consecutive bytes of one JSON text
Adjacent(p, q) ==
    /\ p.kind = "slice" /\ q.kind = "slice"
    /\ p.json = q.json
    /\ q.from = p.to + 1

\* appending bytes to a buffer (BytesMut::unsplit, put_slice, read_buf)
Unsplit(a, b) ==
    IF Len(a) = 0 THEN b
    ELSE IF Len(b) = 0 THEN a
    ELSE IF Adjacent(a[Len(a)], Head(b))
         THEN SubSeq(a, 1, Len(a) - 1)
              \o <<Slice(Head(b).json, a[Len(a)].from, Head(b).to)>> \o Tail(b)
         ELSE a \o b

\* put_u32 that writes the two low bytes in little-endian order
put_u32_swapped(n) ==
    <<Byte(n \div 16777216), Byte((n \div 65536) % 256),
      Byte(n % 256), Byte((n \div 256) % 256)>>

\* BufMut::put_u32 of (n as u32): four bytes, big-endian.  Every length of
\* the model is below 2^31, so the cast to u32 keeps the value.
put_u32(n) ==
    <<Byte(n \div 16777216), Byte((n \div 65536) % 256),
      Byte((n \div 256) % 256), Byte(n % 256)>>

\* u32::from_be_bytes([src[0], src[1], src[2], src[3]])
from_be_bytes(b) ==
    b[1].value * 16777216 + b[2].value * 65536 + b[3].value * 256 + b[4].value

\* serde_json::from_slice on the bytes of a payload: they must be the whole
\* of one JSON text
from_slice(payload, side) ==
    IF Len(payload) = 1 /\ payload[1].kind = "slice"
       /\ payload[1].from = 1 /\ payload[1].to = JsonLen(payload[1].json)
    THEN from_json(payload[1].json, side)
    ELSE None

\* encode that also refuses a frame of exactly the maximum size
TunnelCodec_encode_strict(item, buf) ==
    LET json == to_vec(item)
    IN  IF JsonLen(json) >= MAX_FRAME_SIZE
        THEN [err |-> Some("FrameTooLarge"), buf |-> buf]
        ELSE [err |-> None,
              buf |-> Unsplit(buf, put_u32(JsonLen(json))
                                   \o <<Slice(json, 1, JsonLen(json))>>)]

\* TunnelCodec::<T>::encode(item, dst): err is None or the error, buf the
\* buffer afterwards
TunnelCodec_encode(item, buf) ==
    LET json == to_vec(item)
    IN  IF JsonLen(json) > MAX_FRAME_SIZE
        THEN [err |-> Some("FrameTooLarge"), buf |-> buf]
        ELSE [err |-> None,
              buf |-> Unsplit(buf, put_u32(JsonLen(json))
                                   \o <<Slice(json, 1, JsonLen(json))>>)]

\* what decode returns
NeedMore == [kind |-> "none", err |-> "", msg |-> [type |-> "none"]]
Failed(e) == [kind |-> "err", err |-> e, msg |-> [type |-> "none"]]
Decoded_msg(m) == [kind |-> "msg", err |-> "", msg |-> m]

\* decode that compares the buffer with the payload length alone
TunnelCodec_decode_short(buf, side) ==
    IF BufLen(buf) < 4 THEN [out |-> NeedMore, buf |-> buf]
    ELSE LET length == from_be_bytes(TakeBytes(buf, 4))
             total_len == 4 + length
         IN  IF length > MAX_FRAME_SIZE
             THEN [out |-> Failed("FrameTooLarge"), buf |-> buf]
             ELSE IF BufLen(buf) < length THEN [out |-> NeedMore, buf |-> buf]
             ELSE LET payload == TakeBytes(DropBytes(buf, 4), length)
                      message == from_slice(payload, side)
                      rest == DropBytes(DropBytes(buf, 4), length)
                  IN  IF IsSome(message)
                      THEN [out |-> Decoded_msg(Unwrap(message)), buf |-> rest]
                      ELSE [out |-> Failed("Json"), buf |-> rest]

\* decode that hands the payload over and empties the buffer
TunnelCodec_decode_clear(buf, side) ==
    IF BufLen(buf) < 4 THEN [out |-> NeedMore, buf |-> buf]
    ELSE LET length == from_be_bytes(TakeBytes(buf, 4))
             total_len == 4 + length
         IN  IF length > MAX_FRAME_SIZE
             THEN [out |-> Failed("FrameTooLarge"), buf |-> buf]
             ELSE IF BufLen(buf) < total_len THEN [out |-> NeedMore, buf |-> buf]
             ELSE LET payload == TakeBytes(DropBytes(buf, 4), length)
                      message == from_slice(payload, side)
                  IN  IF IsSome(message)
                      THEN [out |-> Decoded_msg(Unwrap(message)), buf |-> <<>>]
                      ELSE [out |-> Failed("Json"), buf |-> <<>>]

\* TunnelCodec::<T>::decode(src) for the codec of the given side: out is
\* Ok(None), Err(_) or Ok(Some(msg)), buf the buffer afterwards
TunnelCodec_decode(buf, side) ==
    IF BufLen(buf) < 4 THEN [out |-> NeedMore, buf |-> buf]
    ELSE LET length == from_be_bytes(TakeBytes(buf, 4))
             total_len == 4 + length
         IN  IF length > MAX_FRAME_SIZE
             THEN [out |-> Failed("FrameTooLarge"), buf |-> buf]
             ELSE IF BufLen(buf) < total_len THEN [out |-> NeedMore, buf |-> buf]
             ELSE LET payload == TakeBytes(DropBytes(buf, 4), length)
                      message == from_slice(payload, side)
                      rest == DropBytes(DropBytes(buf, 4), length)
                  IN  IF IsSome(message)
                      THEN [out |-> Decoded_msg(Unwrap(message)), buf |-> rest]
                      ELSE [out |-> Failed("Json"), buf |-> rest]

\* ------------------------------------------------------ codec scenarios
\* messages encoded on one transport
MaxEncodes == 2
\* reads the receiver makes on that transport
MaxReads == 2
\* in-flight bytes up to this many are split at every offset; more are
\* split around the length prefix and before the last byte
MaxDense == 64

Item(side, msg) == [side |-> side, msg |-> msg]

\* a body whose HttpResponse (stream_id of two digits) serializes to exactly
\* MAX_FRAME_SIZE bytes, and to one byte more (stream_id of one digit)
ExactBody == <<Run(1, (MAX_FRAME_SIZE - 74) \div 2)>>
OverBody == <<Run(1, (MAX_FRAME_SIZE - 74) \div 2 + 1)>>

WireHttpResponse(sid, status, headers, body) ==
    [type |-> "http_response", stream_id |-> sid, status |-> status,
     headers |-> headers, body |-> body]

\* the client messages of the scenarios
ClientMsgs ==
        <<[type |-> "request_tunnel", subdomain |-> Some("test"),
          tunnel_type |-> "http", local_port |-> 8080],
         [type |-> "request_tunnel", subdomain |-> None,
          tunnel_type |-> "tcp", local_port |-> 0],
         WireHttpResponse(1, 200, <<>>, <<>>),
         WireHttpResponse(2, 404, <<<<"a", "b">>>>, <<Run(0, 1), Run(255, 2)>>),
         WireHttpResponse(10, 200, <<>>, ExactBody),
         WireHttpResponse(1, 200, <<>>, OverBody),
         [type |-> "tcp_close", stream_id |-> 7],
         [type |-> "ping", timestamp |-> 12345]>>

\* the server messages of the scenarios
ServerMsgs ==
        <<[type |-> "tunnel_established", subdomain |-> "test",
          url |-> "https://test.t", port |-> None],
         [type |-> "tunnel_denied", reason |-> ""],
         [type |-> "http_request", stream_id |-> 42, method |-> "GET",
          uri |-> "/api/test", headers |-> <<<<"Host", "example.com">>>>,
          body |-> <<>>],
         [type |-> "tcp_connect", stream_id |-> 1],
         [type |-> "tcp_data", stream_id |-> 1, data |-> <<Run(104, 1), Run(105, 1)>>],
         [type |-> "pong", timestamp |-> 0]>>

\* the messages with the side that sends them
CodecItems ==
    [i \in 1..Len(ClientMsgs) |-> Item("client", ClientMsgs[i])]
    \o [i \in 1..Len(ServerMsgs) |-> Item("server", ServerMsgs[i])]

\* the sender calls encode(item, dst); on Ok the frame is on the transport
Encode(item) ==
    /\ Len(enc_log) < MaxEncodes
    /\ enc_result.err = None
    /\ dec_log = <<>> /\ rpc = "read" /\ src = <<>>
    /\ \A i \in 1..Len(enc_log) : enc_log[i].side = item.side
    /\ LET r == TunnelCodec_encode(item, dst)
       IN  /\ dst' = r.buf
           /\ enc_result' = [err |-> r.err, wrote |-> BufLen(r.buf) - BufLen(dst)]
           /\ enc_log' = IF r.err = None THEN Append(enc_log, item) ELSE enc_log
    /\ citem' = item
    /\ UNCHANGED <<src, feed, rpc, dec_log>>
    /\ UNCHANGED <<ctlVars, routerVars, resVars, httpVars, tcpVars, histVars, linkVars,
                   peer, denied, fwdVars, mainVars, s2c, clientVars, traceVars>>

\* a peer that writes a bare length prefix declaring n bytes
Forge(side, n) ==
    /\ Len(enc_log) < MaxEncodes
    /\ dec_log = <<>> /\ rpc = "read" /\ src = <<>>
    /\ \A i \in 1..Len(enc_log) : enc_log[i].side = side
    /\ dst' = Unsplit(dst, put_u32(n))
    /\ enc_log' = Append(enc_log, Item(side, [type |-> "forged"]))
    /\ UNCHANGED <<citem, enc_result, src, feed, rpc, dec_log>>
    /\ UNCHANGED <<ctlVars, routerVars, resVars, httpVars, tcpVars, histVars, linkVars,
                   peer, denied, fwdVars, mainVars, s2c, clientVars, traceVars>>

\* the writer flushes dst to the transport
Flush ==
    /\ Len(dst) > 0
    /\ feed' = Unsplit(feed, dst)
    /\ dst' = <<>>
    /\ UNCHANGED <<citem, enc_result, enc_log, src, rpc, dec_log>>
    /\ UNCHANGED <<ctlVars, routerVars, resVars, httpVars, tcpVars, histVars, linkVars,
                   peer, denied, fwdVars, mainVars, s2c, clientVars, traceVars>>

\* decode calls that ended a decode loop: one per read
Reads == Cardinality({i \in 1..Len(dec_log) : dec_log[i].kind # "msg"})

\* the sizes a read may return
ReadSizes(n) ==
    IF n <= MaxDense THEN 1..n
    ELSE (1..5) \cup {n - 1, n}

\* the size of a read counted from the start or from the end of what is in
\* flight
ReadSize(off, from_end) == IF from_end THEN BufLen(feed) - off ELSE off

\* read_buf(&mut src) returns k bytes of what is in flight
Read(off, from_end) ==
    /\ rpc = "read"
    /\ Reads < MaxReads
    /\ Len(dst) = 0
    /\ ReadSize(off, from_end) \in ReadSizes(BufLen(feed))
    /\ from_end => BufLen(feed) > MaxDense
    /\ LET k == ReadSize(off, from_end) IN
       /\ src' = Unsplit(src, TakeBytes(feed, k))
       /\ feed' = DropBytes(feed, k)
    /\ rpc' = "decode"
    /\ UNCHANGED <<citem, dst, enc_result, enc_log, dec_log>>
    /\ UNCHANGED <<ctlVars, routerVars, resVars, httpVars, tcpVars, histVars, linkVars,
                   peer, denied, fwdVars, mainVars, s2c, clientVars, traceVars>>

\* the length the prefix in a buffer declares (0 while the prefix is short)
Declared(buf) == IF BufLen(buf) < 4 THEN 0 ELSE from_be_bytes(TakeBytes(buf, 4))

\* one codec.decode(&mut src) of the receiver's decode loop; the loop ends
\* on Ok(None), and an Err ends the reading of the transport
Decode ==
    /\ rpc = "decode"
    /\ LET r == TunnelCodec_decode(src, enc_log[1].side)
       IN  /\ src' = r.buf
           /\ dec_log' = Append(dec_log,
                  [kind |-> r.out.kind, err |-> r.out.err, msg |-> r.out.msg,
                   had |-> BufLen(src), declared |-> Declared(src)])
           /\ rpc' = CASE r.out.kind = "msg" -> "decode"
                       [] r.out.kind = "none" -> "read"
                       [] OTHER -> "closed"
    /\ UNCHANGED <<citem, dst, enc_result, enc_log, feed>>
    /\ UNCHANGED <<ctlVars, routerVars, resVars, httpVars, tcpVars, histVars, linkVars,
                   peer, denied, fwdVars, mainVars, s2c, clientVars, traceVars>>

NextCodec ==
    \/ \E i \in 1..Len(CodecItems) : Encode(CodecItems[i])
    \/ \E side \in {"client", "server"},
          n \in {MAX_FRAME_SIZE, MAX_FRAME_SIZE + 1, 2147483647} : Forge(side, n)
    \/ Flush
    \/ \E off \in 0..MaxDense, from_end \in BOOLEAN : Read(off, from_end)
    \/ Decode

SpecCodec == Init /\ [][NextCodec]_vars

\* ------------------------------------------------------ claims on the codec
\* every frame on the transport was written by encode
OnlyEncoded == \A i \in 1..Len(enc_log) : enc_log[i].msg.type # "forged"

\* the messages decode has returned, in order
DecodedMsgs ==
    LET got == SelectSeq(dec_log, LAMBDA e : e.kind = "msg")
    IN  [i \in 1..Len(got) |-> got[i].msg]

\* everything that was encoded has been flushed, read and offered to decode
AllDelivered ==
    /\ Len(enc_log) > 0 /\ Len(dec_log) > 0
    /\ Len(dst) = 0 /\ Len(feed) = 0 /\ rpc = "read"

\* C12: decoding what encode wrote never fails and returns the encoded
\* messages, equal field by field and in order; once all the bytes are
\* delivered every message has been returned and the buffer is empty
C12_RoundTrip ==
    OnlyEncoded =>
        /\ \A i \in 1..Len(dec_log) : dec_log[i].kind # "err"
        /\ Len(DecodedMsgs) <= Len(enc_log)
        /\ \A i \in 1..Len(DecodedMsgs) : DecodedMsgs[i] = enc_log[i].msg
        /\ AllDelivered =>
              /\ Len(DecodedMsgs) = Len(enc_log)
              /\ src = <<>>

\* a response with no headers and an empty body went through encode and
\* decode and left the buffer empty
C12_Witness ==
    /\ OnlyEncoded /\ AllDelivered /\ src = <<>>
    /\ DecodedMsgs = <<WireHttpResponse(1, 200, <<>>, <<>>)>>
    /\ enc_log = <<Item("client", WireHttpResponse(1, 200, <<>>, <<>>))>>

\* the length of the i-th frame on the transport
FrameLen(i) == 4 + JsonLen(to_vec(enc_log[i]))

\* bytes of the transport that have reached the receiver's buffer
Delivered ==
    SumSeq([i \in 1..Len(enc_log) |-> FrameLen(i)]) - BufLen(feed) - BufLen(dst)

\* frames whose last byte has reached the receiver
NumComplete ==
    Cardinality({i \in 1..Len(enc_log) :
        SumSeq([j \in 1..i |-> FrameLen(j)]) <= Delivered})

\* C13: wherever the reads split the encoded bytes, a decode on a buffer
\* that holds less than a whole frame returns need-more (no message, no
\* error) and consumes nothing it needs, and after every read the messages
\* returned so far are exactly the frames whose last byte has arrived
C13_SplitSafe ==
    OnlyEncoded =>
        /\ \A i \in 1..Len(dec_log) :
              LET e == dec_log[i]
              IN  /\ e.kind # "err"
                  /\ e.kind = "none" <=> (e.had < 4 \/ e.had < 4 + e.declared)
        /\ rpc = "read" =>
              /\ Len(DecodedMsgs) = NumComplete
              /\ \A i \in 1..NumComplete : DecodedMsgs[i] = enc_log[i].msg

\* a first read ended inside the length prefix, gave need-more, and the
\* rest then gave the message
C13_Witness ==
    /\ OnlyEncoded /\ Len(enc_log) = 1 /\ Len(dec_log) >= 2
    /\ dec_log[1].kind = "none" /\ dec_log[1].had \in 1..3
    /\ dec_log[2].kind = "msg" /\ dec_log[2].msg = enc_log[1].msg

\* C14: encode fails with FrameTooLarge exactly for a payload above
\* MAX_FRAME_SIZE and then writes nothing, otherwise it writes prefix and
\* payload; decode fails with FrameTooLarge exactly when the four prefix
\* bytes it holds declare more than MAX_FRAME_SIZE, whatever else has
\* arrived; a frame of exactly MAX_FRAME_SIZE passes both
C14_SizeLimit ==
    /\ citem # NoItem =>
          LET n == JsonLen(to_vec(citem))
          IN  /\ enc_result.err = Some("FrameTooLarge") <=> n > MAX_FRAME_SIZE
              /\ n > MAX_FRAME_SIZE => enc_result.wrote = 0
              /\ n <= MAX_FRAME_SIZE =>
                    enc_result = [err |-> None, wrote |-> 4 + n]
    /\ \A i \in 1..Len(dec_log) :
          LET e == dec_log[i]
          IN  (e.kind = "err" /\ e.err = "FrameTooLarge")
                  <=> (e.had >= 4 /\ e.declared > MAX_FRAME_SIZE)
    /\ \A i \in 1..Len(dec_log) :
          (/\ i <= Len(enc_log) /\ enc_log[i].msg.type # "forged"
           /\ \A j \in 1..i : dec_log[j].kind = "msg")
              => dec_log[i].msg = enc_log[i].msg

\* a frame of exactly MAX_FRAME_SIZE was encoded and decoded, the encode of
\* one byte more failed and wrote nothing, and a prefix declaring one byte
\* more was refused with nothing but the prefix in the buffer
C14_Witness ==
    /\ enc_result = [err |-> Some("FrameTooLarge"), wrote |-> 0]
    /\ Len(dec_log) = 2
    /\ dec_log[1].kind = "msg" /\ dec_log[1].declared = MAX_FRAME_SIZE
    /\ dec_log[1].msg = WireHttpResponse(10, 200, <<>>, ExactBody)
    /\ dec_log[2].kind = "err" /\ dec_log[2].err = "FrameTooLarge"
    /\ dec_log[2].had = 4 /\ dec_log[2].declared = MAX_FRAME_SIZE + 1

\* ------------------------------------------------------ claims on the ports
\* RequestTunnel frames the clients send in the port scenarios: one more
\* than there are ports
MaxPortFrames == 3

PortFrames == {OkFrame(RequestTunnel(Some(sub), "tcp")) : sub \in {SubA, SubB}}

InitPorts == InitWith(MaxPortFrames, MaxQueue)

NextPorts ==
    \/ \E c \in Conns : ConnStep(c)
    \/ \E c \in Conns : ConnEnv(c, BOOLEAN)
    \/ \E c \in Conns, bind_ok \in BOOLEAN : Bind(c, bind_ok)
    \/ \E c \in Conns, f \in PortFrames : ReadFrame(c, f)

SpecPorts == InitPorts /\ [][NextPorts]_vars

\* p is the lowest port of start..=end that is not in alloc
LowestFree(alloc, p) ==
    /\ p \in Ports \ alloc
    /\ \A q \in Ports \ alloc : p <= q

\* what allocate and release answer on a set of allocated ports
AllocatorAnswers(alloc) ==
    /\ allocate(alloc) = None <=> Ports \subseteq alloc
    /\ IsSome(allocate(alloc)) => LowestFree(alloc, Unwrap(allocate(alloc)))
    /\ \A p \in Ports :
          /\ p \notin release(alloc, p)
          /\ release(alloc, p) \ {p} = alloc \ {p}
          /\ IsSome(allocate(release(alloc, p)))
          /\ Unwrap(allocate(release(alloc, p))) <= p

\* the negotiation of c got a port from allocate in this step
GotPort(c) == pc[c] # "bind" /\ pc'[c] = "bind"

\* the negotiation of c was refused a port by allocate in this step
RefusedPort(c) ==
    /\ pc[c] \notin {"bind", "send"} /\ pc'[c] = "send"
    /\ pending'[c] = Some(TunnelDenied("TCP port allocation failed"))

C15_Step ==
    /\ AllocatorAnswers(allocated)
    /\ \A c \in Conns :
          GotPort(c) =>
              /\ IsSome(cur'[c].port)
              /\ LowestFree(allocated, Unwrap(cur'[c].port))
              /\ allocated' = allocated \cup {Unwrap(cur'[c].port)}
    /\ \A c \in Conns :
          RefusedPort(c) => (allocated = Ports /\ allocated' = allocated)
    /\ allocated' # allocated =>
          \/ \E c \in Conns : GotPort(c)
          \/ \E p \in allocated :
                /\ allocated' = allocated \ {p}
                /\ IsSome(allocate(allocated'))
                /\ Unwrap(allocate(allocated')) <= p

\* C15: allocate returns the lowest port of start..=end that is not
\* allocated and marks it; it returns none exactly when every port of the
\* range is allocated; release unmarks the port, which allocate can then
\* return again
C15_Allocator == [][C15_Step]_vars

\* every port is allocated and a connection that holds none of them was
\* refused one
C15_Witness ==
    /\ allocated = Ports
    /\ \E c \in Conns :
          /\ pc[c] = "send"
          /\ pending[c] = Some(TunnelDenied("TCP port allocation failed"))
          /\ \A p \in Ports : alloc_by[p] # c

\* a connection whose handler is running
Live(c) == pc[c] \notin {"init", "closed"}

\* the ports a connection holds: the one of its registered tunnel and the one
\* of the negotiation in progress
PortsHeld(c) ==
    {p \in Ports : assigned_tcp_port[c] = Some(p) \/ cur[c].port = Some(p)}

\* the TCP tunnels in the router: subdomains with a route and a port entry
RegisteredTcp == {p \in DOMAIN tcp_ports : tcp_ports[p] \in DOMAIN routes}

C16_Step ==
    /\ \A c1 \in Conns, c2 \in Conns :
          (c1 # c2 /\ Live(c1) /\ Live(c2)) => PortsHeld(c1) \cap PortsHeld(c2) = {}
    /\ \A l1 \in listeners, l2 \in listeners :
          l1.port = l2.port => l1.subdomain = l2.subdomain
    /\ \A c \in Conns :
          GotPort(c) => Unwrap(cur'[c].port) \notin allocated
    /\ \A p \in RegisteredTcp :
          p \in DOMAIN tcp_ports' => tcp_ports'[p] = tcp_ports[p]
    /\ \A c \in Conns : \A p \in PortsHeld(c) : Live(c) => p \in allocated

\* C16: whatever the interleaving, allocate never returns a port that is
\* marked allocated, no two live connections hold the same port (registered
\* or being negotiated), a port has listeners for one subdomain only, and
\* no registration replaces the port entry of a registered tunnel
C16_PortOneTunnel == [][C16_Step]_vars

\* two connections hold a registered TCP tunnel each, on different ports
C16_Witness ==
    /\ Live(1) /\ Live(2)
    /\ IsSome(assigned_tcp_port[1]) /\ IsSome(assigned_tcp_port[2])
    /\ Cardinality(RegisteredTcp) = 2

\* ------------------------------------------------- claims on the writer task
\* messages the outbound channel of the writer scenarios holds at most
WriterQueue == 2

WriterFrames == {OkFrame(Ping(7)), OkFrame(Ping(8))}

\* connection 1 holds the HTTP tunnel "a"; its handler answers pings while
\* the HTTP plane forwards requests into the same channel
InitWriter == InitHttpWith(WriterQueue)

NextWriter ==
    \/ \E c \in Conns : Writer(c) \/ WriterFail(c)
    \/ \E c \in Conns : DispatchPing(c) \/ SendReply(c)
    \/ \E c \in Conns : ReadEof(c) \/ Teardown(c) \/ TeardownDns(c, TRUE)
    \/ \E c \in Conns, f \in WriterFrames : ReadFrame(c, f)
    \/ \E r \in Reqs : HttpSend(r) \/ HttpTimeout(r) \/ HttpTimeoutCleanup(r)
    \/ \E r \in Reqs, body_ok \in BOOLEAN : HttpLookup(r, Some(HostA), body_ok)

SpecWriter == InitWriter /\ [][NextWriter]_vars

\* q2 is q1 with one message added at its end
Enqueued(q1, q2) == Len(q2) = Len(q1) + 1 /\ SubSeq(q2, 1, Len(q1)) = q1

C17_Step ==
    \A c \in Conns :
        \/ /\ wire'[c] = wire[c]
           /\ \/ chan'[c] = chan[c]
              \/ Enqueued(chan[c], chan'[c])
              \/ chan'[c] = <<>> /\ ~rx_open'[c]
        \/ /\ rx_open[c] /\ chan[c] # <<>>
           /\ wire'[c] = Some(Head(chan[c]))
           /\ chan'[c] = Tail(chan[c])

\* C17: on each connection a frame reaches the transport only in a step of
\* the writer task, and it is the oldest message of the outbound channel;
\* senders only add at the end of the channel, so frames are written in the
\* order they were enqueued (messages still queued when the writer stops are
\* dropped, never written out of order)
C17_WriterOrder == [][C17_Step]_vars

\* the writer wrote a frame and two different messages wait behind it
C17_Witness ==
    /\ IsSome(wire[1])
    /\ Len(chan[1]) = 2
    /\ chan[1][1] # chan[1][2]
    /\ Unwrap(wire[1]) # chan[1][1]

\* ------------------------------------------------------- the siphon client
\* chunks each end of a TCP stream sends
MaxData == 2
\* streams the external peers open in the TCP scenarios
MaxOpen == 1

\* the control connection of the TCP tunnel "b" (InitStreams)
TcpTunnel == 2

\* a lookup that ignores the stream_id and takes the first stream
StreamOf_first(sid) == CHOOSE t \in Tcps : \A u \in Tcps : t <= u

\* the stream a stream_id belongs to
StreamOf(sid) == CHOOSE t \in Tcps : tsid[t] = sid

\* the k-th chunk an end of stream t sends
Chunk(t, k) == <<t, k>>
Chunks(t, n) == [k \in 1..n |-> Chunk(t, k)]

IsPrefix(a, b) == Len(a) <= Len(b) /\ SubSeq(b, 1, Len(a)) = a

\* response_tx.send(msg).await: the client's writer task holds the receiver
\* for as long as the connection runs
ClientCanSend == Len(response_tx) < cap

\* connector.rs: read_buf + decode returned a ServerMessage; the arms that
\* do not await end here
ClientRead ==
    /\ peer = "client"
    /\ cpc = "read"
    /\ s2c[TcpTunnel] # <<>>
    /\ s2c' = [s2c EXCEPT ![TcpTunnel] = Tail(@)]
    /\ LET msg == Head(s2c[TcpTunnel])
       IN  CASE msg.type = "tcp_connect" ->
                  /\ cpc' = "connect" /\ cmsg' = msg
                  /\ UNCHANGED connections
             [] msg.type = "tcp_data" ->
                  \* handle_data: connections.get(&stream_id)
                  IF msg.stream_id \in connections
                  THEN /\ cpc' = "data_send" /\ cmsg' = msg
                       /\ UNCHANGED connections
                  ELSE UNCHANGED <<cpc, cmsg, connections>>
             [] msg.type = "tcp_close" ->
                  \* handle_close: connections.remove(&stream_id), drop(handle)
                  /\ connections' = connections \ {msg.stream_id}
                  /\ UNCHANGED <<cpc, cmsg>>
             [] OTHER -> UNCHANGED <<cpc, cmsg, connections>>
    /\ UNCHANGED <<cwq, cwpc, crpc, response_tx>>
    /\ UNCHANGED <<ctlVars, routerVars, resVars, httpVars, tcpVars, histVars>>
    /\ UNCHANGED <<codecVars, linkVars, peer, denied, fwdVars, mainVars, traceVars>>

\* handle_connect: TcpStream::connect(&self.local_addr).await; on Err send
\* TcpClose; on Ok register the stream and spawn the two tasks
ClientConnect(connect_ok) ==
    /\ cpc = "connect"
    /\ LET sid == cmsg.stream_id
           t == StreamOf(sid)
       IN  IF connect_ok
           THEN /\ connections' = connections \cup {sid}
                /\ cwpc' = [cwpc EXCEPT ![t] = "run"]
                /\ crpc' = [crpc EXCEPT ![t] = "run"]
                /\ UNCHANGED <<response_tx, cclose>>
           ELSE /\ ClientCanSend
                /\ response_tx' = Append(response_tx, ClientTcpClose(sid))
                /\ cclose' = [cclose EXCEPT ![t] = @ + 1]
                /\ UNCHANGED <<connections, cwpc, crpc>>
    /\ cpc' = "read"
    /\ cmsg' = [type |-> "none"]
    /\ UNCHANGED cwq
    /\ UNCHANGED <<ctlVars, routerVars, resVars, httpVars, tcpVars, histVars>>
    /\ UNCHANGED <<codecVars, linkVars, peer, denied, fwdVars, mainVars, s2c>>
    /\ UNCHANGED <<ext_out, ext_in, local_out, local_in, sclose>>

\* the local write task of stream t still holds write_rx
LocalRxOpen(t) == cwpc[t] \in {"run", "closing", "close_send"}

\* handle_data: handle.writer.send(data).await, Err is logged
ClientDataSend ==
    /\ cpc = "data_send"
    /\ LET t == StreamOf(cmsg.stream_id)
       IN  /\ ~LocalRxOpen(t) \/ Len(cwq[t]) < cap
           /\ cwq' = IF LocalRxOpen(t) THEN [cwq EXCEPT ![t] = Append(@, cmsg.data)]
                     ELSE cwq
    /\ cpc' = "read"
    /\ cmsg' = [type |-> "none"]
    /\ UNCHANGED <<connections, cwpc, crpc, response_tx>>
    /\ UNCHANGED <<ctlVars, routerVars, resVars, httpVars, tcpVars, histVars>>
    /\ UNCHANGED <<codecVars, linkVars, peer, denied, fwdVars, mainVars, s2c, traceVars>>

\* local write task: write_rx.recv() returned data; write_all, break on Err
ClientWrite(t, write_ok) ==
    /\ cwpc[t] = "run"
    /\ cwq[t] # <<>>
    /\ cwq' = [cwq EXCEPT ![t] = Tail(@)]
    /\ cwpc' = [cwpc EXCEPT ![t] = IF write_ok THEN "run" ELSE "closing"]
    /\ local_in' = IF write_ok THEN [local_in EXCEPT ![t] = Append(@, Head(cwq[t]))]
                   ELSE local_in
    /\ UNCHANGED <<cpc, cmsg, connections, crpc, response_tx>>
    /\ UNCHANGED <<ctlVars, routerVars, resVars, httpVars, tcpVars, histVars>>
    /\ UNCHANGED <<codecVars, linkVars, peer, denied, fwdVars, mainVars, s2c>>
    /\ UNCHANGED <<ext_out, ext_in, local_out, sclose, cclose>>

\* the read loop holds the map entry of a stream while it awaits the send of
\* handle_data (the Ref returned by connections.get)
RefHeld(sid) == cpc = "data_send" /\ cmsg.stream_id = sid

\* local write task: write_rx.recv() returned None: the handle is out of
\* the map
ClientWriteEnd(t) ==
    /\ cwpc[t] = "run"
    /\ cwq[t] = <<>>
    /\ tsid[t] \notin connections
    /\ cwpc' = [cwpc EXCEPT ![t] = "closing"]
    /\ UNCHANGED <<cpc, cmsg, connections, cwq, crpc, response_tx>>
    /\ UNCHANGED <<ctlVars, routerVars, resVars, httpVars, tcpVars, histVars>>
    /\ UNCHANGED <<codecVars, linkVars, peer, denied, fwdVars, mainVars, s2c, traceVars>>

\* local read task: read_half.read returned Ok(n), n > 0: send TcpData
ClientLocalData(t) ==
    /\ crpc[t] = "run"
    /\ local_out[t] < MaxData
    /\ ClientCanSend
    /\ response_tx' = Append(response_tx, ClientTcpData(tsid[t], Chunk(t, local_out[t] + 1)))
    /\ local_out' = [local_out EXCEPT ![t] = @ + 1]
    /\ UNCHANGED <<cpc, cmsg, connections, cwq, cwpc, crpc>>
    /\ UNCHANGED <<ctlVars, routerVars, resVars, httpVars, tcpVars, histVars>>
    /\ UNCHANGED <<codecVars, linkVars, peer, denied, fwdVars, mainVars, s2c>>
    /\ UNCHANGED <<ext_out, ext_in, local_in, sclose, cclose>>

\* local read task: read_half.read returned Ok(0) or Err: break
ClientLocalEof(t) ==
    /\ crpc[t] = "run"
    /\ crpc' = [crpc EXCEPT ![t] = "closing"]
    /\ UNCHANGED <<cpc, cmsg, connections, cwq, cwpc, response_tx>>
    /\ UNCHANGED <<ctlVars, routerVars, resVars, httpVars, tcpVars, histVars>>
    /\ UNCHANGED <<codecVars, linkVars, peer, denied, fwdVars, mainVars, s2c, traceVars>>

\* either task after its loop: connections.remove(&stream_id), which waits
\* for the map entry to be free
ClientTaskRemove(t) ==
    /\ cwpc[t] = "closing" \/ crpc[t] = "closing"
    /\ ~RefHeld(tsid[t])
    /\ connections' = connections \ {tsid[t]}
    /\ \/ /\ cwpc[t] = "closing"
          /\ cwpc' = [cwpc EXCEPT ![t] = "close_send"]
          /\ UNCHANGED crpc
       \/ /\ crpc[t] = "closing"
          /\ crpc' = [crpc EXCEPT ![t] = "close_send"]
          /\ UNCHANGED cwpc
    /\ UNCHANGED <<cpc, cmsg, cwq, response_tx>>
    /\ UNCHANGED <<ctlVars, routerVars, resVars, httpVars, tcpVars, histVars>>
    /\ UNCHANGED <<codecVars, linkVars, peer, denied, fwdVars, mainVars, s2c, traceVars>>

\* either task at its end: response_tx.send(TcpClose { stream_id }).await
ClientTaskClose(t) ==
    /\ cwpc[t] = "close_send" \/ crpc[t] = "close_send"
    /\ ClientCanSend
    /\ response_tx' = Append(response_tx, ClientTcpClose(tsid[t]))
    /\ cclose' = [cclose EXCEPT ![t] = @ + 1]
    /\ \/ /\ cwpc[t] = "close_send"
          /\ cwpc' = [cwpc EXCEPT ![t] = "done"]
          /\ cwq' = [cwq EXCEPT ![t] = <<>>]
          /\ UNCHANGED crpc
       \/ /\ crpc[t] = "close_send"
          /\ crpc' = [crpc EXCEPT ![t] = "done"]
          /\ UNCHANGED <<cwpc, cwq>>
    /\ UNCHANGED <<cpc, cmsg, connections>>
    /\ UNCHANGED <<ctlVars, routerVars, resVars, httpVars, tcpVars, histVars>>
    /\ UNCHANGED <<codecVars, linkVars, peer, denied, fwdVars, mainVars, s2c>>
    /\ UNCHANGED <<ext_out, ext_in, local_out, local_in, sclose>>

\* the client's writer task writes the oldest message of response_tx and the
\* server's read loop reads the frame
ClientWriter ==
    /\ response_tx # <<>>
    /\ response_tx' = Tail(response_tx)
    /\ read_frame(TcpTunnel, OkFrame(Head(response_tx)))
    /\ UNCHANGED <<cpc, cmsg, connections, cwq, cwpc, crpc>>
    /\ UNCHANGED <<codecVars, linkVars, peer, denied, fwdVars, mainVars, s2c, traceVars>>

\* the external peer of stream t sends its next chunk
ExtPeerData(t) ==
    /\ ext_out[t] < MaxData
    /\ TcpExtData(t, Chunk(t, ext_out[t] + 1))

\* frames the client may send in the TCP scenarios: its data and its closes
TcpFrameBudget == MaxOpen * (MaxData + 3)

InitTcp == InitStreamsWith(TcpFrameBudget, MaxQueue, "client")

NextTcp ==
    \/ \E t \in 1..MaxOpen, l \in listeners : TcpAccept(t, l)
    \/ \E t \in Tcps : TcpSendConnect(t) \/ TcpExtEof(t) \/ TcpSendClose(t)
    \/ \E t \in Tcps : ExtPeerData(t)
    \/ \E t \in Tcps : TcpWrite(t) \/ TcpWriteEnd(t) \/ TcpWriteClose(t)
    \/ \E c \in Conns : Writer(c)
    \/ \E c \in Conns : DispatchTcpData(c) \/ TcpForward(c) \/ DispatchTcpClose(c)
    \/ ClientRead \/ ClientDataSend \/ ClientWriter
    \/ \E connect_ok \in BOOLEAN : ClientConnect(connect_ok)
    \/ \E t \in Tcps, write_ok \in BOOLEAN : ClientWrite(t, write_ok)
    \/ \E t \in Tcps : ClientWriteEnd(t) \/ ClientLocalData(t) \/ ClientLocalEof(t)
    \/ \E t \in Tcps : ClientTaskRemove(t) \/ ClientTaskClose(t)

SpecTcp == InitTcp /\ [][NextTcp]_vars

\* streams and channel capacity of the scenarios with interleaved streams
MaxPair == 2
PairQueue == 2

InitTcpPair == InitStreamsWith(MaxPair * MaxData, PairQueue, "client")

\* two streams of one tunnel carry data in both directions at the same
\* time and stay open
NextTcpPair ==
    \/ \E t \in 1..MaxPair, l \in listeners : TcpAccept(t, l)
    \/ \E t \in Tcps : TcpSendConnect(t) \/ ExtPeerData(t) \/ TcpWrite(t)
    \/ \E c \in Conns : Writer(c)
    \/ \E c \in Conns : DispatchTcpData(c) \/ TcpForward(c)
    \/ ClientRead \/ ClientDataSend \/ ClientWriter
    \/ ClientConnect(TRUE)
    \/ \E t \in Tcps : ClientWrite(t, TRUE) \/ ClientLocalData(t)

SpecTcpPair == InitTcpPair /\ [][NextTcpPair]_vars

\* ------------------------------------------- claims on the TCP data streams
\* nothing of stream t is in flight: every queue and buffer between the two
\* ends is empty and no handler is in the middle of a send
Quiet(t) ==
    /\ twq[t] = <<>> /\ cwq[t] = <<>>
    /\ chan[TcpTunnel] = <<>> /\ s2c[TcpTunnel] = <<>>
    /\ response_tx = <<>> /\ read_buf[TcpTunnel] = <<>>
    /\ pc[TcpTunnel] = "read" /\ cpc = "read"

\* stream t is open at both ends: registered on the server and on the
\* client, the handler in its read loop, the three tasks running
StreamOpen(t) ==
    /\ tpc[t] = "open" /\ twpc[t] = "run"
    /\ tsid[t] \in DOMAIN tcp_registry
    /\ tsid[t] \in connections
    /\ cwpc[t] = "run" /\ crpc[t] = "run"

\* C18: what the local service has received on a stream is a prefix of what
\* the external peer sent on it, in the order sent, and the same in the
\* other direction: no chunk is duplicated, reordered, skipped or taken from
\* another stream; and while the stream is open at both ends, once nothing
\* is in flight every chunk sent has arrived
C18_StreamBytes ==
    \A t \in Tcps :
        /\ IsPrefix(local_in[t], Chunks(t, ext_out[t]))
        /\ IsPrefix(ext_in[t], Chunks(t, local_out[t]))
        /\ (StreamOpen(t) /\ Quiet(t)) =>
              /\ local_in[t] = Chunks(t, ext_out[t])
              /\ ext_in[t] = Chunks(t, local_out[t])

\* two streams are open, both ends of each have sent all their chunks and
\* received all of the other end's
C18_Witness ==
    \A t \in 1..MaxPair :
        /\ StreamOpen(t) /\ Quiet(t)
        /\ local_in[t] = Chunks(t, MaxData)
        /\ ext_in[t] = Chunks(t, MaxData)

\* C19: for each stream the server enqueues at most one TcpClose and the
\* client enqueues at most one TcpClose, however the endings of the reader
\* and writer tasks interleave
C19_CloseOnce ==
    \A t \in Tcps : sclose[t] <= 1 /\ cclose[t] <= 1

\* ------------------------------------------- the client's reconnection loop

\* connection attempts the model counts; the loop itself has no limit, so
\* the count stops at MaxTries and the loop goes on
MaxTries == 3

\* the ways the transport to the server is lost
TransportLoss == {"eof", "read_error", "connect_failure", "decode_error"}

\* the places where select! has run_tunnel pending and polls shutdown_signal
SelectPending == {"connect", "handshake", "request", "read", "decode", "drain"}

\* everything the reconnection loop leaves alone
notMainVars == <<ctlVars, routerVars, resVars, httpVars, tcpVars, histVars,
                 codecVars, linkVars, peer, denied, fwdVars, s2c, clientVars, traceVars>>

\* run_cli_mode, top of the loop: `if shutdown { break }`, otherwise
\* select! starts run_tunnel
LoopTop ==
    /\ mpc = "select"
    /\ IF shutdown
       THEN mpc' = "exited" /\ tries' = tries
       ELSE /\ mpc' = "connect"
            /\ tries' = IF tries < MaxTries THEN tries + 1 ELSE tries
    /\ UNCHANGED <<shutdown, loss, notMainVars>>

\* run_tunnel: TcpStream::connect(server_addr).await?
Connect(ok) ==
    /\ mpc = "connect"
    /\ IF ok THEN mpc' = "handshake" /\ loss' = loss
             ELSE mpc' = "err" /\ loss' = "connect_failure"
    /\ UNCHANGED <<shutdown, tries, notMainVars>>

\* run_tunnel: tls_connector.connect(server_name, stream).await?
Handshake(ok) ==
    /\ mpc = "handshake"
    /\ IF ok THEN mpc' = "request" /\ loss' = loss
             ELSE mpc' = "err" /\ loss' = "tls"
    /\ UNCHANGED <<shutdown, tries, notMainVars>>

\* run_tunnel: connection.request_tunnel(subdomain, tunnel_type).await?
RequestTunnelSent(ok) ==
    /\ mpc = "request"
    /\ IF ok THEN mpc' = "read" /\ loss' = loss
             ELSE mpc' = "err" /\ loss' = "request_failure"
    /\ UNCHANGED <<shutdown, tries, notMainVars>>

\* TunnelConnection::run, read loop: read_buf returns Ok(0), Err or Ok(n);
\* the first two leave the loop, drop response_tx and await the write task
ReadBuf(res) ==
    /\ mpc = "read"
    /\ CASE res = "eof" -> mpc' = "drain" /\ loss' = "eof"
         [] res = "err" -> mpc' = "drain" /\ loss' = "read_error"
         [] OTHER -> mpc' = "decode" /\ loss' = loss
    /\ UNCHANGED <<shutdown, tries, notMainVars>>

\* TunnelConnection::run, decode loop: a message that is handled, Ok(None),
\* TunnelDenied (bail!) or a decode error (bail!)
DecodeNext(res) ==
    /\ mpc = "decode"
    /\ CASE res = "msg" -> mpc' = "decode" /\ loss' = loss
         [] res = "none" -> mpc' = "read" /\ loss' = loss
         [] res = "denied" -> mpc' = "err" /\ loss' = "denied"
         [] OTHER -> mpc' = "err" /\ loss' = "decode_error"
    /\ UNCHANGED <<shutdown, tries, notMainVars>>

\* TunnelConnection::run after the read loop: `write_handle.await` returns
\* once the write task has left its loop. tcp_forwarder still holds a clone
\* of response_tx, so recv() does not return None; the task leaves the loop
\* when a message of a forwarder task fails to be written
WriteTaskEnds ==
    /\ mpc = "drain"
    /\ mpc' = "ok"
    /\ UNCHANGED <<shutdown, loss, tries, notMainVars>>

\* run_cli_mode: `Ok(_) => break`
ResultOk ==
    /\ mpc = "ok"
    /\ mpc' = "exited"
    /\ UNCHANGED <<shutdown, loss, tries, notMainVars>>

\* run_cli_mode: `Err(e)`: a TLS error returns, any other error starts the
\* 5 second sleep
ResultErr ==
    /\ mpc = "err"
    /\ mpc' = IF loss = "tls" THEN "exited" ELSE "sleep"
    /\ UNCHANGED <<shutdown, loss, tries, notMainVars>>

\* run_cli_mode: tokio::time::sleep(Duration::from_secs(5)) is over
Backoff ==
    /\ mpc = "sleep"
    /\ mpc' = "select"
    /\ UNCHANGED <<shutdown, loss, tries, notMainVars>>

\* run_cli_mode: the shutdown_signal() arm of select! wins; run_tunnel is
\* dropped
ShutdownSignal ==
    /\ mpc \in SelectPending
    /\ shutdown' = TRUE
    /\ mpc' = "select"
    /\ UNCHANGED <<loss, tries, notMainVars>>

\* the steps that need nothing from outside the client: the loop's own
\* control flow and the timer of the runtime
ClientSteps == LoopTop \/ ResultOk \/ ResultErr \/ Backoff

InitReconnect == InitWith(0, MaxQueue)

NextReconnect ==
    \/ LoopTop
    \/ \E ok \in BOOLEAN : Connect(ok)
    \/ \E ok \in BOOLEAN : Handshake(ok)
    \/ \E ok \in BOOLEAN : RequestTunnelSent(ok)
    \/ \E res \in {"data", "eof", "err"} : ReadBuf(res)
    \/ \E res \in {"msg", "none", "denied", "decode_err"} : DecodeNext(res)
    \/ WriteTaskEnds
    \/ ResultOk
    \/ ResultErr
    \/ Backoff
    \/ ShutdownSignal

\* the client's own steps are taken when they are enabled: the tokio runtime
\* polls a ready task and fires a timer that is due
SpecReconnect == InitReconnect /\ [][NextReconnect]_vars /\ WF_vars(ClientSteps)

\* run_tunnel has just ended with the transport lost
TransportLost ==
    loss \in TransportLoss /\ mpc \in {"drain", "ok", "err"}

\* C20: whenever the transport to the server is lost (server EOF, read
\* error, connect failure, decode error) and no shutdown signal has been
\* received, the client waits the backoff and then starts a new connection
\* attempt, unless a shutdown signal arrives first
C20_Reconnect ==
    /\ (TransportLost /\ ~shutdown) ~> (mpc = "sleep" \/ shutdown)
    /\ (mpc = "sleep") ~> (mpc = "connect")

\* ------------------------------------------- subdomains of RequestTunnel
\* longest subdomain the scenario enumerates character by character
MaxLabel == 2
\* RequestTunnel frames the clients send in the scenario
MaxLabelFrames == 2

\* characters the requested subdomains are made of: a lower-case letter, a
\* digit, the hyphen, an upper-case letter and a character outside all of them
LabelAlphabet == {"a", "0", "-", "A", "_"}

\* "a".repeat(n)
Repeat(ch, n) == [i \in 1..n |-> ch]

\* the requested subdomains: every string up to MaxLabel characters, and
\* the two strings around the length limit
LabelInputs ==
    UNION {[1..n -> LabelAlphabet] : n \in 0..MaxLabel}
    \cup {Repeat("a", MaxSubdomainLen), Repeat("a", MaxSubdomainLen + 1)}

LabelFrames == {OkFrame(RequestTunnel(Some(s), "http")) : s \in LabelInputs}

InitLabels == InitWith(MaxLabelFrames, MaxQueue)

NextLabels ==
    \/ \E c \in Conns : ConnStep(c)
    \/ \E c \in Conns : ConnEnv(c, {TRUE})
    \/ \E c \in Conns, f \in LabelFrames : ReadFrame(c, f)

SpecLabels == InitLabels /\ [][NextLabels]_vars

\* a DNS label: 1 to 63 characters of [a-z0-9-], no hyphen first or last
IsDnsLabel(s) ==
    /\ Len(s) \in 1..MaxSubdomainLen
    /\ \A i \in 1..Len(s) : s[i] \in LowerLetters \cup Digits \cup {"-"}
    /\ s[1] # "-"
    /\ s[Len(s)] # "-"

\* the handler of a RequestTunnel that names a subdomain answers
\* TunnelDenied "Invalid subdomain format" exactly when the subdomain is no
\* DNS label
C21_Step ==
    \A c \in Conns :
        (Decoded(c, "request_tunnel") /\ got_request'[c] /\ nread'[c] = nread[c]
            /\ read_buf'[c] # read_buf[c])
        => LET sub == Unwrap(decode(read_buf[c]).msg.subdomain)
           IN  (pending'[c] = Some(TunnelDenied("Invalid subdomain format")))
                  <=> ~IsDnsLabel(sub)

\* C21: validation accepts a subdomain exactly when it is a DNS label (1 to
\* 63 characters of [a-z0-9-], first and last no hyphen); a RequestTunnel
\* with any other subdomain is denied with "Invalid subdomain format" and
\* no route is ever registered under such a subdomain
C21_SubdomainIsDnsLabel ==
    /\ [][C21_Step]_vars
    /\ [](\A s \in DOMAIN routes : IsDnsLabel(s))

\* ------------------------------------------- the client's HTTP forwarding
\* notFwdVars: everything the forwarding tasks and the write task leave alone
notFwdVars == <<ctlVars, routerVars, resVars, httpVars, tcpVars, histVars,
                codecVars, linkVars, peer, denied, mainVars, s2c, traceVars,
                cpc, cmsg, connections, cwq, cwpc, crpc>>

\* the bytes of the ASCII characters the error bodies are made of
AsciiByte(ch) ==
    CASE ch = "F" -> 70 [] ch = "o" -> 111 [] ch = "r" -> 114 [] ch = "w" -> 119
      [] ch = "a" -> 97 [] ch = "d" -> 100 [] ch = "i" -> 105 [] ch = "n" -> 110
      [] ch = "g" -> 103 [] ch = " " -> 32 [] ch = "e" -> 101 [] ch = ":" -> 58
      [] ch = "x" -> 120

\* String::into_bytes
into_bytes(text) == [i \in 1..Len(text) |-> Run(AsciiByte(text[i]), 1)]

\* format!("Forwarding error: {}", e)
forwarding_error(e) ==
    <<"F", "o", "r", "w", "a", "r", "d", "i", "n", "g", " ",
      "e", "r", "r", "o", "r", ":", " ">> \o e

\* what forward_http returns: Ok((status, headers, body)) or Err(error)
ForwardOk(status, headers, body) ==
    [ok |-> TRUE, status |-> status, headers |-> headers, body |-> body, error |-> <<>>]
ForwardErr(e) ==
    [ok |-> FALSE, status |-> 0, headers |-> <<>>, body |-> <<>>, error |-> e]

\* the results of the local calls in the scenario: an empty 200, a 404 with
\* a body, a 200 whose body makes the frame one byte too large, a failure
ForwardResults ==
    {ForwardOk(200, <<>>, <<>>), ForwardOk(NOT_FOUND, <<>>, <<Run(1, 1)>>),
     ForwardOk(200, <<>>, OverBody), ForwardErr(<<"x">>)}

\* the HttpResponse the spawned task builds from the result
response_of(stream_id, res) ==
    IF res.ok
    THEN WireHttpResponse(stream_id, res.status, res.headers, res.body)
    ELSE WireHttpResponse(stream_id, BAD_GATEWAY, <<>>,
                          into_bytes(forwarding_error(res.error)))

\* ServerMessage::HttpRequest { stream_id = r, .. }: tokio::spawn of the
\* forwarding task
ClientHttpRequest(r) ==
    /\ fpc[r] = "idle"
    /\ fpc' = [fpc EXCEPT ![r] = "forward"]
    /\ UNCHANGED <<fres, fmsg, wtask, c2s, response_tx, notFwdVars>>

\* fwd.forward_http(..).await returned; the task builds its message
ForwardDone(r, res) ==
    /\ fpc[r] = "forward"
    /\ fres' = [fres EXCEPT ![r] = Some(res)]
    /\ fmsg' = [fmsg EXCEPT ![r] = Some(response_of(r, res))]
    /\ fpc' = [fpc EXCEPT ![r] = "send"]
    /\ UNCHANGED <<wtask, c2s, response_tx, notFwdVars>>

\* `let _ = tx.send(msg).await;` of the task: it waits while the channel is
\* full and fails once the write task has dropped response_rx
ForwardSend(r) ==
    /\ fpc[r] = "send"
    /\ wtask # "run" \/ Len(response_tx) < cap
    /\ response_tx' = IF wtask = "run" THEN Append(response_tx, Unwrap(fmsg[r]))
                      ELSE response_tx
    /\ fpc' = [fpc EXCEPT ![r] = "done"]
    /\ UNCHANGED <<fres, fmsg, wtask, c2s, notFwdVars>>

\* the write task of TunnelConnection::run: response_rx.recv() returned a
\* message; codec.encode, write_all, flush; any Err breaks out of the loop,
\* which drops response_rx with what is queued in it
ClientWriteTask(write_ok) ==
    /\ wtask = "run"
    /\ response_tx # <<>>
    /\ LET enc == TunnelCodec_encode(Item("client", Head(response_tx)), <<>>)
       IN  IF IsSome(enc.err)
           THEN /\ wtask' = "encode_failed"
                /\ response_tx' = <<>>
                /\ UNCHANGED c2s
           ELSE IF ~write_ok
           THEN /\ wtask' = "write_failed"
                /\ response_tx' = <<>>
                /\ UNCHANGED c2s
           ELSE /\ c2s' = Append(c2s, Head(response_tx))
                /\ response_tx' = Tail(response_tx)
                /\ UNCHANGED wtask
    /\ UNCHANGED <<fpc, fres, fmsg, notFwdVars>>

InitForward == InitWith(0, MaxQueue)

NextForward ==
    \/ \E r \in Reqs : ClientHttpRequest(r)
    \/ \E r \in Reqs, res \in ForwardResults : ForwardDone(r, res)
    \/ \E r \in Reqs : ForwardSend(r)
    \/ \E write_ok \in BOOLEAN : ClientWriteTask(write_ok)

\* the write task can take a step: recv() has a message to return
WriteTaskReady == wtask = "run" /\ response_tx # <<>>

\* weak fairness of the write task, written with the condition under which
\* its step is enabled
WriteTaskFair ==
    \/ []<>(~WriteTaskReady)
    \/ []<><<\E write_ok \in BOOLEAN : ClientWriteTask(write_ok)>>_vars

\* the local service answers every call, and the runtime runs the tasks
\* that can run
SpecForward ==
    /\ InitForward /\ [][NextForward]_vars
    /\ \A r \in Reqs : WF_vars(\E res \in ForwardResults : ForwardDone(r, res))
    /\ \A r \in Reqs : WF_vars(ForwardSend(r))
    /\ WriteTaskFair

\* the HttpResponse frames with stream_id r the client has written
Responses(r) == {i \in 1..Len(c2s) : c2s[i].stream_id = r}

\* the body holds the bytes of the text somewhere
Contains(body, text) ==
    \E k \in 0..(Len(body) - Len(text)) :
        SubSeq(body, k + 1, k + Len(text)) = into_bytes(text)

\* the frame carries the local service's result or the synthesized 502
CarriesResult(frame, res) ==
    IF res.ok
    THEN /\ frame.status = res.status
         /\ frame.headers = res.headers
         /\ frame.body = res.body
    ELSE /\ frame.status = BAD_GATEWAY
         /\ Contains(frame.body, res.error)

\* C22: for every HttpRequest the client receives it sends exactly one
\* HttpResponse with the same stream_id, carrying the local service's
\* result or a 502 whose body contains the error text: never two, never a
\* different content, and, unless a write to the transport failed, one
\* eventually
C22_OneResponse ==
    /\ [](\A r \in Reqs :
             /\ Cardinality(Responses(r)) <= 1
             /\ Responses(r) # {} => fpc[r] = "done"
             /\ \A i \in Responses(r) : CarriesResult(c2s[i], Unwrap(fres[r])))
    /\ \A r \in Reqs :
          (fpc[r] # "idle") ~> (Responses(r) # {} \/ wtask = "write_failed")

\* ------------------------------------------- claims on failed negotiations
\* the handler of connection c is about to send TunnelDenied
Denying(c) ==
    /\ pc[c] = "send"
    /\ IsSome(pending[c])
    /\ Unwrap(pending[c]).type = "tunnel_denied"

\* ports marked allocated by a negotiation of connection c that are not the
\* port of its established tunnel
StrayPorts(c) ==
    {p \in allocated : alloc_by[p] = c /\ Some(p) # assigned_tcp_port[c]}

\* DNS records created by the request connection c is handling
StrayRecords(c) == {d \in dns_records : d.id = RecordId(c)}

\* routes that lead to connection c under a subdomain it was not assigned
StrayRoutes(c) ==
    {s \in DOMAIN routes : routes[s].sender = c /\ Some(s) # assigned_subdomain[c]}

\* C23: a negotiation that fails leaves no partial state: by the time
\* TunnelDenied is sent the port allocated for the request is released, the
\* DNS record created for it is deleted and no route exists for it
C23_NoPartialState ==
    \A c \in Conns :
        Denying(c) =>
            /\ StrayPorts(c) = {}
            /\ StrayRecords(c) = {}
            /\ StrayRoutes(c) = {}

\* the read loop of connection c dispatches the next message of its buffer
Dispatches(c) ==
    /\ pc[c] = "decode"
    /\ decode(read_buf[c]).kind = "msg"
    /\ read_buf'[c] = decode(read_buf[c]).rest

\* C24: after a negotiation failure the server emits TunnelDenied and the
\* connection is closed: no further message received on that connection is
\* dispatched, in particular no second RequestTunnel
C24_DeniedThenClosed ==
    [][\A c \in Conns : denied[c] => ~Dispatches(c)]_vars

\* the negotiation of connection c has been answered
Replied(c) == denied[c] \/ \E e \in established : e[1] = c

FirstReplies == {"tunnel_established", "tunnel_denied"}

\* C25: on every control connection the first frame enqueued for the client
\* is TunnelEstablished or TunnelDenied: until one of them has been
\* enqueued the outbound channel holds no other frame and none was written
C25_ReplyFirst ==
    \A c \in Conns :
        ~Replied(c) =>
            /\ \A i \in 1..Len(chan[c]) : chan[c][i].type \in FirstReplies
            /\ IsSome(wire[c]) => Unwrap(wire[c]).type \in FirstReplies

\* ------------------------------------------------------------------ C26
\* handle_request returned for request r (any of its return statements)
Returned(r) == hpc[r] = "done"

\* the pending-response registry holds an entry for the stream_id of r
HoldsEntry(r) ==
    \E k \in DOMAIN response_registry : k = hsid[r] /\ response_registry[k] = r

\* everything but the read position of connection c's loop
notReadVars == <<nread, budget, assigned_subdomain, assigned_tcp_port, cur, pending,
                 chan, rx_open, routerVars, resVars, httpVars, tcpVars, histVars,
                 extVars>>

\* connection c dispatches an HttpResponse whose stream_id has no entry
DropsResponse(c) ==
    /\ Decoded(c, "http_response")
    /\ decode(read_buf[c]).msg.stream_id \notin DOMAIN response_registry
    /\ read_buf'[c] # read_buf[c]

\* C26: once handle_request has returned (answer from the tunnel, send
\* failure, sink closed, deadline expiry, or an answer given before a sink
\* was created) the pending-response registry holds no entry for the
\* request's stream_id; removing a stream_id twice leaves the registry as one
\* removal does; and dispatching an HttpResponse whose stream_id has no entry
\* changes nothing but the read position of the connection's loop.
C26_NoEntryAfterReturn ==
    /\ [](\A r \in Reqs : Returned(r) => ~HoldsEntry(r))
    /\ [](\A k \in 0..(MaxReqs + 1) :
            sink_remove(sink_remove(response_registry, k), k)
                = sink_remove(response_registry, k))
    /\ [][\A c \in Conns : DropsResponse(c) => UNCHANGED notReadVars]_vars

\* a request was answered at the deadline, its sink is gone, and an
\* HttpResponse for its stream_id is the next frame a connection dispatches
C26_Witness ==
    \E r \in Reqs, c \in Conns :
        /\ Returned(r)
        /\ IsSome(hresp[r]) /\ Unwrap(hresp[r]).arm = "timeout"
        /\ resolved[r] = 1
        /\ Decoded(c, "http_response")
        /\ decode(read_buf[c]).msg.stream_id = hsid[r]
        /\ hsid[r] \notin DOMAIN response_registry

\* ------------------------------------- teardown with TCP streams and a listener
\* frames the clients send in the teardown scenarios
MaxTeardownFrames == 1

TeardownFrames ==
    {OkFrame(Ping(7))} \cup {OkFrame(ClientTcpClose(sid)) : sid \in 1..MaxTcp}

\* listener.accept() returned Err: the listener task leaves its loop and the
\* TcpListener is dropped
ListenerAcceptErr(l) ==
    /\ l \in listeners
    /\ listeners' = listeners \ {l}
    /\ UNCHANGED <<allocated, dns_records>>
    /\ UNCHANGED <<ctlVars, routerVars, httpVars, tcpVars, histVars>>
    /\ UNCHANGED extVars

\* connection 1 holds the HTTP tunnel "a", connection 2 the TCP tunnel "b"
\* with its listener bound
InitTeardown == InitStreamsWith(MaxTeardownFrames, MaxQueue, "env")

\* the steps of the task running handle_connection for c, past the read
HandlerStep(c) ==
    \/ Teardown(c)
    \/ \E delete_ok \in BOOLEAN : TeardownDns(c, delete_ok)
    \/ DispatchPing(c)
    \/ SendReply(c)
    \/ DispatchTcpClose(c)

\* the writer task of connection c
WriterStep(c) == Writer(c) \/ WriterFail(c)

\* the task running handle_tcp_connection for t, past the read
StreamStep(t) == TcpSendConnect(t) \/ TcpSendClose(t)

\* the write task of stream t
StreamWriteStep(t) == TcpWriteEnd(t) \/ TcpWriteClose(t)

NextTeardown ==
    \/ \E c \in Conns : ReadEof(c)
    \/ \E c \in Conns, f \in TeardownFrames : ReadFrame(c, f)
    \/ \E c \in Conns : HandlerStep(c)
    \/ \E c \in Conns : WriterStep(c)
    \/ \E t \in Tcps, l \in listeners : TcpAccept(t, l)
    \/ \E l \in listeners : ListenerAcceptErr(l)
    \/ \E t \in Tcps : TcpExtData(t, "d") \/ TcpExtEof(t)
    \/ \E t \in Tcps : StreamStep(t)
    \/ \E t \in Tcps : StreamWriteStep(t)

\* the tokio runtime polls every task that is ready: the connection handlers,
\* the writer tasks, the stream handlers and their write tasks take their
\* next step.  What the clients and the external peers do (frames, EOF,
\* connections, data, accept errors) is not forced.
SpecTeardown ==
    /\ InitTeardown
    /\ [][NextTeardown]_vars
    /\ \A c \in Conns : WF_vars(HandlerStep(c)) /\ WF_vars(WriterStep(c))
    /\ \A t \in Tcps : WF_vars(StreamStep(t)) /\ WF_vars(StreamWriteStep(t))

\* ------------------------------------------------------------------ C27
\* stream t has its registry entry
StreamRegistered(t) == \E sid \in DOMAIN tcp_registry : tcp_registry[sid] = t

\* stream t is closed: entry removed, handler over (external connection dropped)
StreamClosed(t) == tpc[t] = "closed" /\ ~StreamRegistered(t)

\* C27: once the control connection of a tunnel is torn down, every TCP
\* stream of that tunnel is eventually closed (registry entry removed,
\* external connection closed), whatever the external peer does or does not
\* send.
C27_StreamsCloseOnTeardown ==
    \A t \in Tcps :
        (tpc[t] \in {"connect", "open"} /\ pc[tconn[t]] = "closed") ~> StreamClosed(t)

\* ------------------------------------------------------------------ C28
\* the listener tasks allocate_and_listen can have spawned
ListenerTasks == [port : Ports, subdomain : {SubA, SubB}]

\* the port of listener task l went back to the allocator while l is bound
HoldsReleasedPort(l) == l \in listeners /\ l.port \notin allocated

\* C28: the listener task of a TCP tunnel exits once the tunnel is torn
\* down: a listener whose port was released is eventually gone, so the
\* released port is no longer held.
C28_ListenerExits ==
    \A l \in ListenerTasks : HoldsReleasedPort(l) ~> (l \notin listeners)

\* ------------------------------------------------------------------ C29
\* the writer task of connection c ended while handle_connection still runs
WriterTerminated(c) == ~rx_open[c] /\ pc[c] \notin {"init", "closed"}

\* connection c is the sender of a registered route
RegisteredTunnel(c) == \E sub \in DOMAIN routes : routes[sub].sender = c

\* C29: an encode or write error in the writer task ends the connection: the
\* read loop stops and the cleanup unregisters, so a connection whose writer
\* has terminated is eventually closed with no route left for it.
C29_WriterErrorEndsConnection ==
    \A c \in Conns :
        WriterTerminated(c) ~> (pc[c] = "closed" /\ ~RegisteredTunnel(c))

\* ------------------------------------------------------------------ C30
\* handle_connection returns for c in this step
Returns(c) == pc[c] # "closed" /\ pc'[c] = "closed"

\* C30: when the connection is torn down the frames still queued for the
\* writer are not discarded: the step that ends handle_connection leaves
\* them in the channel for the writer to write before it terminates.
C30_QueuedFramesWritten ==
    [][\A c \in Conns : Returns(c) => chan'[c] = chan[c]]_vars

\* ------------------------------------------------------------------ C31
\* TCP streams end to end, with a control connection of the TCP tunnel that
\* can end at any moment (the TcpConnect send then returns Err)
NextConnect ==
    \/ NextTcp
    \/ ReadEof(TcpTunnel) \/ Teardown(TcpTunnel) \/ TeardownDns(TcpTunnel, TRUE)

SpecConnect == InitTcp /\ [][NextConnect]_vars

\* the handler of stream t enqueues its TcpConnect in this step
ConnectEnqueued(t) ==
    /\ tpc[t] = "connect" /\ tpc'[t] = "open"
    /\ chan'[tconn[t]] = Append(chan[tconn[t]], TcpConnect(tsid[t]))

\* the TcpConnect send of stream t fails in this step
ConnectFailed(t) == tpc[t] = "connect" /\ tpc'[t] = "closed"

\* a TcpData for stream t is the next frame connection c dispatches
DataFor(c, t) ==
    /\ Decoded(c, "tcp_data")
    /\ decode(read_buf[c]).msg.stream_id = tsid[t]

\* stream t is open: TcpConnect sent, neither end has closed it
OpenStream(t) == tpc[t] = "open" /\ twpc[t] = "run" /\ cclose[t] = 0

\* C31: the byte-sink of an accepted connection is in the TCP registry when
\* its TcpConnect is enqueued (and from the moment the handler is about to
\* send it); a TcpData dispatched for an open stream finds the writer of
\* that stream; and when the TcpConnect send fails the entry is removed.
C31_SinkBeforeConnect ==
    /\ [](\A t \in Tcps : tpc[t] = "connect" =>
            get_writer(tcp_registry, tsid[t]) = Some(t))
    /\ [](\A t \in Tcps, c \in Conns : (OpenStream(t) /\ DataFor(c, t)) =>
            get_writer(tcp_registry, tsid[t]) = Some(t))
    /\ [][\A t \in Tcps :
            /\ (tpc[t] = "connect" /\ tpc'[t] # "connect") =>
                    ConnectEnqueued(t) \/ ConnectFailed(t)
            /\ ConnectFailed(t) => tsid[t] \notin DOMAIN tcp_registry']_vars

\* a TcpData for an open stream is about to be dispatched and its writer is
\* registered
C31_Witness ==
    \E t \in Tcps, c \in Conns :
        /\ OpenStream(t) /\ DataFor(c, t)
        /\ tsid[t] \in DOMAIN tcp_registry

\* ------------------------------------- client frames against open TCP streams
\* frames the clients send in the close scenarios
MaxCloseFrames == 2

CloseFrames ==
    {OkFrame(ClientTcpClose(sid)) : sid \in 1..MaxTcp}
    \cup {OkFrame(ClientTcpData(sid, "r")) : sid \in 1..MaxTcp}

InitClose == InitStreamsWith(MaxCloseFrames, MaxQueue, "env")

\* external connections on the TCP tunnel "b" while either client sends
\* TcpData and TcpClose frames for any stream id
NextClose ==
    \/ \E t \in Tcps, l \in listeners : TcpAccept(t, l)
    \/ \E t \in Tcps : TcpSendConnect(t) \/ TcpExtEof(t) \/ TcpSendClose(t)
    \/ \E t \in Tcps : TcpExtData(t, "d")
    \/ \E t \in Tcps : TcpWrite(t) \/ TcpWriteEnd(t) \/ TcpWriteClose(t)
    \/ \E c \in Conns : Writer(c)
    \/ \E c \in Conns, f \in CloseFrames : ReadFrame(c, f)
    \/ \E c \in Conns : DispatchTcpData(c) \/ TcpForward(c) \/ DispatchTcpClose(c)

SpecClose == InitClose /\ [][NextClose]_vars

\* ------------------------------------------------------------------ C32
\* connection c dispatches a frame of the given type in this step
DispatchesFrame(c, type) == Decoded(c, type) /\ read_buf'[c] # read_buf[c]

\* the stream_id of the frame connection c is about to dispatch
FrameStream(c) == decode(read_buf[c]).msg.stream_id

\* the entries of every stream but stream_id are the same in reg and reg2
OthersKept(reg, reg2, stream_id) ==
    /\ DOMAIN reg \ {stream_id} = DOMAIN reg2 \ {stream_id}
    /\ \A k \in DOMAIN reg \ {stream_id} : reg2[k] = reg[k]

\* C32: dispatching TcpClose{stream_id} leaves no TCP-registry entry for
\* stream_id and keeps every other stream's entry; the read loop goes on (no
\* error).  A TcpClose or a TcpData whose stream_id has no entry (a second
\* close, a close racing with the ingress side's own cleanup) changes nothing
\* but the read position of the connection's loop.
C32_CloseIdempotent ==
    [][\A c \in Conns :
        /\ DispatchesFrame(c, "tcp_close") =>
              /\ FrameStream(c) \notin DOMAIN tcp_registry'
              /\ OthersKept(tcp_registry, tcp_registry', FrameStream(c))
              /\ pc'[c] \in {"read", "decode"}
        /\ (/\ DispatchesFrame(c, "tcp_close") \/ DispatchesFrame(c, "tcp_data")
            /\ FrameStream(c) \notin DOMAIN tcp_registry) =>
              /\ UNCHANGED notReadVars
              /\ pc'[c] \in {"read", "decode"}]_vars

\* a TcpClose is about to be dispatched for a stream the ingress side has
\* already removed, while another stream is registered
C32_Witness ==
    \E c \in Conns, t \in Tcps :
        /\ Decoded(c, "tcp_close")
        /\ FrameStream(c) = tsid[t]
        /\ tpc[t] \in {"close_send", "closed"}
        /\ tsid[t] \notin DOMAIN tcp_registry
        /\ DOMAIN tcp_registry # {}

\* ------------------------------------------------------------------ C33
\* the cleanup of connection c calls router.unregister in this step
Unregisters(c) ==
    pc[c] = "cleanup" /\ pc'[c] # "cleanup" /\ IsSome(assigned_subdomain[c])

\* the port mappings of tp that point to subdomain
PortsOf(tp, subdomain) == {p \in DOMAIN tp : tp[p] = subdomain}

\* C33: router.unregister(subdomain) on a registered subdomain removes its
\* route and every TCP-port mapping that points to it and returns the
\* removed handle (whose DNS record id the cleanup then deletes); on a
\* subdomain that is not registered it returns nothing and changes neither
\* map; routes and port mappings of other subdomains stay as they are.
C33_UnregisterEffect ==
    [][\A c \in Conns : Unregisters(c) =>
        LET sub == Unwrap(assigned_subdomain[c])
        IN  /\ sub \notin DOMAIN routes'
            /\ \A s \in DOMAIN routes \ {sub} : s \in DOMAIN routes' /\ routes'[s] = routes[s]
            /\ DOMAIN routes' \subseteq DOMAIN routes
            /\ \A p \in DOMAIN tcp_ports \ PortsOf(tcp_ports, sub) :
                    p \in DOMAIN tcp_ports' /\ tcp_ports'[p] = tcp_ports[p]
            /\ DOMAIN tcp_ports' \subseteq DOMAIN tcp_ports
            /\ IF sub \in DOMAIN routes
               THEN /\ PortsOf(tcp_ports', sub) = {}
                    /\ pc'[c] = "dns_delete"
                    /\ cur'[c].rec = routes[sub].dns_record_id
               ELSE /\ routes' = routes /\ tcp_ports' = tcp_ports
                    /\ pc'[c] = "closed"]_vars

\* a TCP tunnel was just unregistered: its route and its port mapping are
\* gone while the port mapping of another tunnel is still there
C33_Witness ==
    \E c \in Conns :
        /\ pc[c] = "dns_delete"
        /\ IsSome(assigned_tcp_port[c])
        /\ Unwrap(assigned_subdomain[c]) \notin DOMAIN routes
        /\ Unwrap(assigned_tcp_port[c]) \notin DOMAIN tcp_ports
        /\ DOMAIN tcp_ports # {}

\* ------------------------------------------------------------------ C34
\* everything a Ping must leave alone: routing map, port pool, listeners,
\* DNS records, pending-response registry, TCP registry, the planes' tasks
notPingVars == <<nread, budget, assigned_subdomain, assigned_tcp_port, cur, rx_open,
                 routerVars, resVars, httpVars, tcpVars>>

\* the handler of connection c completes the send of a Pong in this step
PongSent(c) ==
    /\ pc[c] = "send" /\ pc'[c] # "send"
    /\ Unwrap(pending[c]).type = "pong"

Decodes == rpc = "decode" /\ Len(dec_log') = Len(dec_log) + 1

\* what the call of this step returned
Returned_kind == dec_log'[Len(dec_log')].kind

\* C35: a need-more result leaves the buffer as it was; a successful decode
\* consumes exactly the 4 prefix bytes and the declared payload and leaves
\* the bytes behind them untouched; a buffer holding several frames gives
\* them one per call, in the order they were written.
C35_DecodeAdvance ==
    /\ [][Decodes =>
            /\ Returned_kind = "none" => src' = src
            /\ Returned_kind = "msg" =>
                  /\ BufLen(src') = BufLen(src) - (4 + Declared(src))
                  /\ src' = DropBytes(src, 4 + Declared(src))]_vars
    /\ [](\A i \in 1..(Len(dec_log) - 1) :
            dec_log[i].kind = "msg" =>
                dec_log[i + 1].had = dec_log[i].had - (4 + dec_log[i].declared))
    /\ [](OnlyEncoded =>
            /\ Len(DecodedMsgs) <= Len(enc_log)
            /\ \A i \in 1..Len(DecodedMsgs) : DecodedMsgs[i] = enc_log[i].msg)

\* one read delivered two whole frames and two calls returned them in order
C35_Witness ==
    /\ OnlyEncoded /\ Len(enc_log) = 2 /\ Len(dec_log) >= 2
    /\ dec_log[1].kind = "msg" /\ dec_log[1].msg = enc_log[1].msg
    /\ dec_log[1].had > 4 + dec_log[1].declared
    /\ dec_log[2].kind = "msg" /\ dec_log[2].msg = enc_log[2].msg
    /\ dec_log[2].had = 4 + dec_log[2].declared

\* ------------------------------------------------------------------ C36
\* the stream of the TCP plane that owns stream_id, if an external
\* connection was given it
StreamsOf(stream_id) == {t \in Tcps : tpc[t] # "idle" /\ tsid[t] = stream_id}

\* C36: a client message affects only streams of the tunnel of the
\* connection it arrived on: an HttpResponse dispatched on connection c
\* resolves no pending request that was sent on another connection, and a
\* TcpData or TcpClose dispatched on c neither takes the writer nor removes
\* the registry entry of a stream of another tunnel.
C36_OwnStreamsOnly ==
    [][\A c \in Conns :
        /\ DispatchesFrame(c, "http_response") =>
              \A r \in Reqs : (hconn[r] # c) =>
                    (oneshot'[r] = oneshot[r] /\ resolved'[r] = resolved[r])
        /\ DispatchesFrame(c, "tcp_data") =>
              \A t \in Tcps : (pc'[c] = "tcp_send" /\ Unwrap(pending'[c]).writer = t) =>
                    tconn[t] = c
        /\ DispatchesFrame(c, "tcp_close") =>
              \A t \in StreamsOf(FrameStream(c)) : (tconn[t] # c) =>
                    (StreamRegistered(t) => StreamRegistered(t)')]_vars

\* ------------------------------------------------------------------ C37
\* connection c is live: accepted and not yet in its cleanup section
LiveConn(c) == pc[c] \notin {"init", "cleanup", "dns_delete", "closed"}

\* the connection whose negotiation created DNS record d
RecordOwner(d) == d.id[1]

\* C37: the teardown of connection c removes from the routing map only an
\* entry whose sender is c, and deletes only the DNS record of such an entry:
\* a route registered by another live connection, and the DNS record that
\* connection created, are still there after every step of c's cleanup.
C37_TeardownOwnRouteOnly ==
    [][\A c \in Conns :
        /\ Unregisters(c) =>
              \A s \in DOMAIN routes :
                  (routes[s].sender # c /\ LiveConn(routes[s].sender)) =>
                      (s \in DOMAIN routes' /\ routes'[s] = routes[s])
        /\ (pc[c] = "dns_delete" /\ pc'[c] = "closed") =>
              \A d \in dns_records \ dns_records' :
                  RecordOwner(d) = c \/ ~LiveConn(RecordOwner(d))]_vars

\* ----------------------------- a subdomain registered again after a teardown
\* frames the clients send in the re-registration scenarios
MaxRebindFrames == 2

RebindFrames == {OkFrame(RequestTunnel(Some(SubB), tt)) : tt \in {"http", "tcp"}}

InitRebind == InitStreamsWith(MaxRebindFrames, MaxQueue, "env")

\* the TCP tunnel "b" of connection 2 ends and "b" is requested again, on
\* either connection, while external connections arrive on the listeners
NextRebind ==
    \/ \E c \in Conns : ReadEof(c) \/ Teardown(c) \/ TeardownDns(c, TRUE)
    \/ \E c \in Conns, f \in RebindFrames : ReadFrame(c, f)
    \/ \E c \in Conns : DispatchRequestTunnel(c) \/ Dns(c, TRUE) \/ RegisterInsert(c)
    \/ \E c \in Conns, bind_ok \in BOOLEAN : Bind(c, bind_ok)
    \/ \E c \in Conns : SendReply(c) \/ Writer(c)
    \/ \E t \in Tcps, l \in listeners : TcpAccept(t, l)
    \/ \E t \in Tcps : TcpSendConnect(t) \/ TcpExtEof(t) \/ TcpSendClose(t)

SpecRebind == InitRebind /\ [][NextRebind]_vars

\* ------------------------------------------------------------------ C38
\* connection c holds port p for subdomain sub: it registered sub with p
HoldsPort(c, sub, p) ==
    /\ sub \in DOMAIN routes /\ routes[sub].sender = c
    /\ assigned_subdomain[c] = Some(sub)
    /\ assigned_tcp_port[c] = Some(p)

\* C38: an external connection accepted on a port is handed (TcpConnect,
\* registry entry, tunnel sender) only to the tunnel that holds that port:
\* when the handler of an accepted connection takes a tunnel's sender, a
\* listener of the connection's subdomain is bound on the port that tunnel
\* holds.
C38_ForwardToPortHolder ==
    [][\A t \in Tcps :
        (tpc[t] = "idle" /\ tpc'[t] = "connect") =>
            \E l \in listeners :
                /\ l.subdomain = tsub'[t]
                /\ HoldsPort(tconn'[t], l.subdomain, l.port)]_vars

\* ------------------------------------------------------------------ C39
\* the message enqueued on the channel of connection c in this step
NewFrame(c) == chan'[c][Len(chan'[c])]

\* C39: once the server has enqueued TcpClose{stream_id} on a tunnel's
\* outbound channel it enqueues no TcpData{stream_id} for that stream,
\* whichever side closed the stream first.
C39_NoDataAfterClose ==
    [][\A c \in Conns :
        (Enqueued(chan[c], chan'[c]) /\ NewFrame(c).type = "tcp_data") =>
            \A t \in StreamsOf(NewFrame(c).stream_id) : sclose[t] = 0]_vars

\* ---- the client's dispatch loop and a stopped local write task ----

\* chunks the external peer sends on one stream in the burst scenario
MaxBurst == 3

\* the external peer of stream t sends a burst of chunks
BurstData(t) ==
    /\ ext_out[t] < MaxBurst
    /\ TcpExtData(t, Chunk(t, ext_out[t] + 1))

InitBurst == InitStreamsWith(MaxOpen, MaxQueue, "client")

\* one stream receives a burst of data while the local service may fail
\* a write
NextBurst ==
    \/ \E t \in 1..MaxOpen, l \in listeners : TcpAccept(t, l)
    \/ \E t \in Tcps : TcpSendConnect(t) \/ BurstData(t)
    \/ \E c \in Conns : Writer(c)
    \/ ClientRead \/ ClientDataSend \/ ClientWriter
    \/ \E connect_ok \in BOOLEAN : ClientConnect(connect_ok)
    \/ \E t \in Tcps, write_ok \in BOOLEAN : ClientWrite(t, write_ok)
    \/ \E t \in Tcps : ClientLocalData(t) \/ ClientLocalEof(t)
    \/ \E t \in Tcps : ClientTaskRemove(t) \/ ClientTaskClose(t)

SpecBurst == InitBurst /\ [][NextBurst]_vars

\* handle_data holds the map entry of stream t and waits for room in the
\* stream's channel, whose receiver is still alive
DataSendBlocked(t) ==
    /\ cpc = "data_send"
    /\ RefHeld(tsid[t])
    /\ LocalRxOpen(t)
    /\ Len(cwq[t]) >= cap

\* the write task of stream t left its loop on a write error and waits in
\* connections.remove for the entry handle_data holds
RemoveBlocked(t) == cwpc[t] = "closing" /\ RefHeld(tsid[t])

\* C40: handle_data's send, made while it holds the connection-map entry,
\* and the write task's removal of that entry never wait on each other, so
\* the dispatch loop is never stuck on one stream
C40_NoMutualWait ==
    \A t \in Tcps : ~(DataSendBlocked(t) /\ RemoveBlocked(t))

====
